---- MODULE Spec2Model ----
(***************************************************************************)
(* Client-side staking engine of sol-stake-forge: the React hooks that     *)
(* orchestrate initialize / stake / unstake / claim against the remote     *)
(* stake program.                                                          *)
(*                                                                         *)
(*   useStakeProgram_*  src/unnamed/part_001  (claim + custodial payout)   *)
(*   useStaking_*       src/unnamed/part_002  (loading guard, fee buffer)  *)
(*   useStakingMock_*   src/unnamed/part_002  (second useStaking, no tx)   *)
(*   useStakingTs_*     src/src/hooks/useStaking.ts (wallet sendTransaction)*)
(*                                                                         *)
(* Every `await` of a handler is one step: the action is the awaited call  *)
(* returning (or throwing) followed by the handler code up to its next     *)
(* await.  Invocations run in slots so that overlapping handlers are       *)
(* visible.  Lamport amounts exceed 32 bits, so they are kept as           *)
(* [sol, rem] with value sol * LAMPORTS_PER_SOL + rem.                     *)
(***************************************************************************)
EXTENDS Integers, Sequences, FiniteSets, TLC

\* ---------------------------------------------------------------- bounds
MaxSlots == 2
MaxInvocations == 2
MaxTicks == 1
MaxSessionInvocations == 1
\* background reads of one kind followed at a time
MaxPending == 2

\* ------------------------------------------------------------- constants
LAMPORTS_PER_SOL == 1000000000
POINTS_PER_SOL == 100000
MIN_CLAIM_POINTS == 50000
feeBuffer == 10000
TickSeconds == 50000

Slots == 1..MaxSlots
NoKey == "NoKey"
User == "User"
Custodial == "pointsAccountKeypair"
Platform == "platform"
NoAccount == [absent |-> TRUE]
Amounts == {0, 1, 2}
\* the message of an Error constructed without one
EmptyMessage == ""
\* error.message of what an awaited call rejects with
ErrKinds == {"AlreadyProcessed", "Network", "UserRejected", EmptyMessage}
\* a rejection with null or undefined, or with a message that is truthy and not
\* a string: error.message, or errorMsg.includes, throws inside the catch block
Unreadable == "unreadable"

\* ------------------------------------------------------- lamport amounts
Lam(sol, rem) == [sol |-> sol, rem |-> rem]
LamAdd(a, b) ==
  LET r == a.rem + b.rem
  IN  [sol |-> a.sol + b.sol + (r \div LAMPORTS_PER_SOL), rem |-> r % LAMPORTS_PER_SOL]
LamLess(a, b) == a.sol < b.sol \/ (a.sol = b.sol /\ a.rem < b.rem)
LamSub(a, b) ==
  IF a.rem >= b.rem
    THEN [sol |-> a.sol - b.sol, rem |-> a.rem - b.rem]
    ELSE [sol |-> a.sol - b.sol - 1, rem |-> a.rem + LAMPORTS_PER_SOL - b.rem]
LamZero == Lam(0, 0)

\* Math.floor(amount * LAMPORTS_PER_SOL) for a whole-SOL amount
SolToLamports(amount) == Lam(amount, 0)

\* ------------------------------------------------- accrual arithmetic
\* The exact product stakedAmount * e of a lamport amount and a number of
\* seconds 0 <= e < 200000, as [sol, rem]; the remainder is multiplied in
\* three base-10^4 digits so that no intermediate exceeds 32 bits.
Product(stakedAmount, e) ==
  LET a0 == stakedAmount.rem % 10000
      a1 == (stakedAmount.rem \div 10000) % 10000
      a2 == stakedAmount.rem \div 100000000
      t0 == a0 * e
      t1 == a1 * e
      t2 == a2 * e
  IN  LamAdd(LamAdd(Lam(stakedAmount.sol * e, 0),
                    Lam(t0 \div LAMPORTS_PER_SOL, t0 % LAMPORTS_PER_SOL)),
             LamAdd(Lam(t1 \div 100000, (t1 % 100000) * 10000),
                    Lam(t2 \div 10, (t2 % 10) * 100000000)))

\* the integer quotient floor(stakedAmount * e / LAMPORTS_PER_SOL)
ExactEarned(stakedAmount, e) == Product(stakedAmount, e).sol

\* JavaScript numbers are IEEE-754 doubles: 53 significant bits
TwoTo53 == Lam(9007199, 254740992)

\* how many bits p has beyond 53
RECURSIVE ExtraBits(_, _)
ExtraBits(p, bound) ==
  IF LamLess(p, bound) THEN 0 ELSE 1 + ExtraBits(p, LamAdd(bound, bound))

\* the double nearest to the integer p, ties to even.  LAMPORTS_PER_SOL is a
\* multiple of 2^9, so the low bits of p are those of p.rem.
RoundToDouble(p) ==
  LET s == ExtraBits(p, TwoTo53)
      unit == 2 ^ s
      low == p.rem % unit
      down == [p EXCEPT !.rem = @ - low]
      up == LamAdd(down, Lam(0, unit))
  IN  IF low = 0 THEN p
      ELSE IF 2 * low < unit THEN down
      ELSE IF 2 * low > unit THEN up
      ELSE IF down.rem % (2 * unit) = 0 THEN down ELSE up

RECURSIVE BitLength(_)
BitLength(k) == IF k = 0 THEN 0 ELSE 1 + BitLength(k \div 2)

\* the double x / LAMPORTS_PER_SOL for a double x >= 0: its integer part and
\* whether it is a whole number.  A quotient within half a unit in the last
\* place of a whole number rounds to that whole number.
DivideDouble(x) ==
  LET k == x.sol
      r == x.rem
      nk == BitLength(k)
      slack == IF nk >= 25 THEN LAMPORTS_PER_SOL \div (2 ^ (54 - nk)) ELSE 0
  IN  IF r = 0 THEN [int |-> k, whole |-> TRUE]
      ELSE IF LAMPORTS_PER_SOL - r <= slack THEN [int |-> k + 1, whole |-> TRUE]
      ELSE IF r <= slack THEN [int |-> k, whole |-> TRUE]
      ELSE [int |-> k, whole |-> FALSE]

\* Math.floor((stakedAmount * timeElapsed) / LAMPORTS_PER_SOL)
PointsEarned(stakedAmount, timeElapsed) ==
  LET e == IF timeElapsed < 0 THEN -timeElapsed ELSE timeElapsed
      q == DivideDouble(RoundToDouble(Product(stakedAmount, e)))
  IN  IF timeElapsed >= 0 THEN q.int
      ELSE IF q.whole THEN -q.int ELSE -(q.int + 1)

VARIABLES
  hook,            \* which hook the component mounted
  publicKey,       \* useWallet().publicKey
  keypair,         \* pointsAccountKeypair is configured
  signTransaction, \* useWallet().signTransaction is there (useStaking of part_002)
  platformKey,     \* VITE_PLATFORM_PRIVATE_KEY is set (useStaking of part_002)
  loading,         \* useState loading
  balance,         \* walletBalance / balance, as lamports (the hook keeps lamports / 1e9)
  stakeAccount,    \* published position or NoAccount
  pdaExists,       \* useStaking only
  calculatedPoints,\* useStakeProgram only
  intervalAccount, \* stakeAccount captured by the points interval closure
  bgRead,          \* background fetchStakeAccount calls of useStaking between their two awaits
  ops,             \* running invocations, per slot
  invocations,     \* invocations made so far
  lastEvent,       \* outcome of the last invocation that returned before its first await
  chainPos,        \* ledger: the position record or NoAccount
  chainBal,        \* ledger: lamports of the user's wallet
  now,             \* wall clock, seconds
  ticks,
  budget,          \* invocations the caller makes in this specification
  timers,          \* interval timers armed by the effect
  pending          \* background reads issued and not yet returned, counted per kind

vars == <<hook, publicKey, keypair, signTransaction, platformKey, loading, balance, stakeAccount, pdaExists,
          calculatedPoints, intervalAccount, bgRead, ops, invocations, lastEvent,
          chainPos, chainBal, now, ticks, budget, timers, pending>>

hookState == <<loading, balance, stakeAccount, pdaExists, calculatedPoints>>
chain == <<chainPos, chainBal>>
clock == <<now, ticks>>
config == <<hook, keypair, signTransaction, platformKey, budget>>
sync == <<timers, pending>>

\* ------------------------------------------------------------ the ledger
Position(staked, points, lut) ==
  [stakedAmount |-> staked, totalPoints |-> points, lastUpdatedTime |-> lut]

Checkpoint(pos, t) ==
  IF pos.stakedAmount # LamZero /\ t > pos.lastUpdatedTime
    THEN pos.totalPoints + ExactEarned(pos.stakedAmount, t - pos.lastUpdatedTime)
    ELSE pos.totalPoints

Ix(name, lamports, dest) == [name |-> name, lamports |-> lamports, to |-> dest]

\* one instruction applied to [pos, bal, ok]
ApplyIx(st, ix, t) ==
  IF ~st.ok THEN st
  ELSE CASE ix.name = "createPdaAccount" ->
              IF st.pos # NoAccount THEN [st EXCEPT !.ok = FALSE]
              ELSE [st EXCEPT !.pos = Position(LamZero, 0, t)]
         [] ix.name = "stake" ->
              IF st.pos = NoAccount \/ ix.lamports = LamZero \/ LamLess(st.bal, ix.lamports)
                THEN [st EXCEPT !.ok = FALSE]
                ELSE [st EXCEPT !.pos = Position(LamAdd(st.pos.stakedAmount, ix.lamports),
                                                 Checkpoint(st.pos, t), t),
                                !.bal = LamSub(st.bal, ix.lamports)]
         [] ix.name = "unstake" ->
              IF st.pos = NoAccount \/ ix.lamports = LamZero
                 \/ LamLess(st.pos.stakedAmount, ix.lamports)
                THEN [st EXCEPT !.ok = FALSE]
                ELSE [st EXCEPT !.pos = Position(LamSub(st.pos.stakedAmount, ix.lamports),
                                                 Checkpoint(st.pos, t), t),
                                !.bal = LamAdd(st.bal, ix.lamports)]
         [] ix.name = "claimPoints" ->
              IF st.pos = NoAccount THEN [st EXCEPT !.ok = FALSE]
              ELSE [st EXCEPT !.pos = Position(st.pos.stakedAmount, 0, t)]
         [] ix.name = "transfer" ->
              IF ix.to = User
                THEN [st EXCEPT !.bal = LamAdd(st.bal, ix.lamports)]
                ELSE IF LamLess(st.bal, ix.lamports) THEN [st EXCEPT !.ok = FALSE]
                     ELSE [st EXCEPT !.bal = LamSub(st.bal, ix.lamports)]

RECURSIVE ApplyIxs(_, _, _)
ApplyIxs(st, ixs, t) ==
  IF ixs = <<>> THEN st ELSE ApplyIxs(ApplyIx(st, Head(ixs), t), Tail(ixs), t)

ApplyTx(tx) == ApplyIxs([pos |-> chainPos, bal |-> chainBal, ok |-> TRUE], tx.ixs, now)

\* ---------------------------------------------------------- invocations
\* a recency token: the k-th blockhash fetched by invocation n; NoHash when the
\* hook attached none
NoHash == [n |-> 0, k |-> 0]
Tx(name, ixs, feePayer, signer, via) ==
  [name |-> name, ixs |-> ixs, feePayer |-> feePayer, signer |-> signer, via |-> via,
   recentBlockhash |-> NoHash]
NoTx == Tx("none", <<>>, NoKey, NoKey, "none")

\* op: the handler; leg: "init" inside a nested createPdaAccount, "payout" in the
\* custodial transfer of a claim, else "main"; pc: the call the handler awaits;
\* tx: the transaction built and not yet submitted; txs: transactions submitted;
\* confirmed: names of the transactions whose confirmation returned;
\* rpc: remote calls issued; notes: toasts emitted; pre: what held when the handler
\* was invoked (observation only, no handler reads it); n: the invocation's number;
\* blockhash: the last blockhash the handler fetched; reads: the re-reads
\* ("position", "balance") the handler awaited; err: the error whose getLogs()
\* the catch block awaits, in useStakeProgram what the catch block caught;
\* claimed: the points the claim instruction of the handler took from the
\* position on the ledger (observation only, no handler reads it)
NoPre == [known |-> FALSE, short |-> FALSE, exceeds |-> FALSE]
IdleOp == [op |-> "none", leg |-> "none", pc |-> "idle", amount |-> 0, points |-> 0,
           key |-> NoKey, rpc |-> 0, tx |-> NoTx, txs |-> <<>>, confirmed |-> <<>>,
           notes |-> <<>>, pre |-> NoPre, n |-> 0, blockhash |-> NoHash,
           reads |-> {}, err |-> "none", claimed |-> 0]

\* the position is known to the hook: isAccountInitialized / pdaExists
KnownToExist ==
  IF hook = "useStakeProgram" THEN stakeAccount # NoAccount ELSE pdaExists
\* the wallet's lamports do not cover amount + feeBuffer
ShortOfFunds(amount) ==
  LamLess(chainBal, LamAdd(SolToLamports(amount), Lam(0, feeBuffer)))
\* amount is more than the staked amount of the published snapshot
ExceedsStaked(amount) ==
  stakeAccount # NoAccount /\ LamLess(stakeAccount.stakedAmount, SolToLamports(amount))

NewOp(op, leg, pc, amount, points, rpc) ==
  [op |-> op, leg |-> leg, pc |-> pc, amount |-> amount, points |-> points,
   key |-> publicKey, rpc |-> rpc, tx |-> NoTx, txs |-> <<>>, confirmed |-> <<>>,
   notes |-> <<>>, n |-> invocations + 1, blockhash |-> NoHash, reads |-> {},
   err |-> "none", claimed |-> 0,
   pre |-> [known |-> op = "stake" /\ KnownToExist,
            short |-> op = "stake" /\ ShortOfFunds(amount),
            exceeds |-> op = "unstake" /\ ExceedsStaked(amount)]]

Busy(i) == ops[i].pc \notin {"idle"}
Running(i) == ops[i].pc \notin {"idle", "done"}
FreeSlot(i) == ~Busy(i) /\ \A j \in Slots : j < i => Busy(j)

\* the handler goes on to await a remote call
Await(o, pc) == [o EXCEPT !.pc = pc, !.rpc = @ + 1]
\* the handler goes on to await the wallet (a local prompt, no remote call)
AwaitWallet(o, pc) == [o EXCEPT !.pc = pc]
\* the handler goes on to await program.methods.<name>(...).accounts(...)
\* .transaction() or .instruction(), a promise of the anchor library
AwaitBuild(o, pc) == [o EXCEPT !.pc = pc]
Note(o, n) == [o EXCEPT !.notes = Append(@, n)]
Finish(o) == [o EXCEPT !.pc = "done"]
\* an awaited fetchStakeAccount() / fetchBalance() of the handler has returned
Reread(o, what) == [o EXCEPT !.reads = @ \cup {what}]

Event(op, amount, outcome) ==
  [n |-> invocations + 1, op |-> op, amount |-> amount, outcome |-> outcome]

\* an invocation that returns before its first await: nothing but the notification
Rejected(op, amount, outcome) ==
  /\ invocations' = invocations + 1
  /\ lastEvent' = Event(op, amount, outcome)
  /\ UNCHANGED <<hookState, ops, chain, clock, config, sync, publicKey, intervalAccount, bgRead>>

Started(i, o) ==
  /\ invocations' = invocations + 1
  /\ lastEvent' = Event(o.op, o.amount, "started")
  /\ ops' = [ops EXCEPT ![i] = o]
  /\ loading' = TRUE
  /\ UNCHANGED <<balance, stakeAccount, pdaExists, calculatedPoints, chain, clock,
                 config, sync, publicKey, intervalAccount, bgRead>>

CanInvoke(i) == invocations < budget /\ FreeSlot(i)

\* variant: only a zero amount is turned away
nonPositive_zeroOnly(amount) == amount = 0

\* amount <= 0, the validation of stake and unstake in every hook
nonPositive(amount) == amount <= 0

\* the outcomes of submitting tx: "ok" when the ledger accepts it, else an error
SendOutcomes(tx) ==
  ErrKinds \cup (IF ApplyTx(tx).ok THEN {"ok"} ELSE {"ProgramError"})

Submit(o) == [o EXCEPT !.txs = Append(@, o.tx), !.tx = NoTx]
Confirm(o) == [o EXCEPT !.confirmed = Append(@, o.txs[Len(o.txs)].name)]

SetOp(i, o) == ops' = [ops EXCEPT ![i] = o]

\* const { blockhash } = await connection.getLatestBlockhash(): a token nobody held
Fetched(o) == [o EXCEPT !.blockhash = [n |-> o.n, k |-> o.blockhash.k + 1]]
\* tx.recentBlockhash = blockhash
Stamp(tx, blockhash) == [tx EXCEPT !.recentBlockhash = blockhash]

\* ------------------------------------------------------------------------
\* useStakeProgram (src/unnamed/part_001)
\* ------------------------------------------------------------------------

\* variant: the elapsed time wraps around at the end of each day
totalClaimablePoints_wrapDaily(acct, t) ==
  LET timeElapsed == (t - acct.lastUpdatedTime) % 86400
      pointsEarned == IF acct.stakedAmount # LamZero /\ timeElapsed > 0
                        THEN PointsEarned(acct.stakedAmount, timeElapsed)
                        ELSE 0
  IN  acct.totalPoints + pointsEarned

\* totalClaimablePoints of fetchStakeAccount and of the points interval
totalClaimablePoints(acct, t) ==
  LET timeElapsed == t - acct.lastUpdatedTime
      pointsEarned == IF acct.stakedAmount # LamZero /\ timeElapsed > 0
                        THEN PointsEarned(acct.stakedAmount, timeElapsed)
                        ELSE 0
  IN  acct.totalPoints + pointsEarned

\* error.message || "Failed to ...": the text each catch block falls back on
defaultText(op) ==
  CASE op = "createPdaAccount" -> "Failed to create account"
    [] op = "stake" -> "Failed to stake"
    [] op = "unstake" -> "Failed to unstake"
    [] op = "claimPoints" -> "Failed to claim points"

\* variant: the catch block passes the raw error on
useStakeProgram_errorMsg_raw(op, err) == err
\* the catch block of every handler of useStakeProgram: let errorMsg =
\* error.message || default; the already-processed replacement
useStakeProgram_errorMsg(op, err) ==
  IF err = EmptyMessage THEN defaultText(op)
  ELSE IF err = "AlreadyProcessed"
    THEN "Please try again. A new blockhash is required for each request."
    ELSE err

\* variant: a failed claim transaction goes on to the payout leg all the same
useStakeProgram_catch_payoutAnyway(o, err) ==
  IF o.op = "claimPoints" /\ o.leg = "main" /\ o.points \div POINTS_PER_SOL > 0
    THEN Await([o EXCEPT !.leg = "payout"], "getLatestBlockhash")
    ELSE Finish(Note([o EXCEPT !.err = err], <<"Error", useStakeProgram_errorMsg(o.op, err)>>))

\* the catch and finally blocks of every handler of useStakeProgram; o.err keeps
\* what was caught. error.message of null or undefined, and errorMsg.includes of
\* a message that is not a string, throw inside the catch block: no toast, the
\* finally runs and the promise of the handler rejects
useStakeProgram_catch(o, err) ==
  IF err = Unreadable
    THEN Finish([o EXCEPT !.err = err])
    ELSE Finish(Note([o EXCEPT !.err = err], <<"Error", useStakeProgram_errorMsg(o.op, err)>>))

\* what getLatestBlockhash and the transaction build reject with
useStakeProgram_rpcRejections == {"Network", Unreadable}
\* what confirmTransaction rejects with
useStakeProgram_confirmRejections == (ErrKinds \ {"UserRejected"}) \cup {Unreadable}

useStakeProgram_createPdaAccount(i) ==
  /\ hook = "useStakeProgram"
  /\ CanInvoke(i)
  /\ IF publicKey = NoKey
       THEN Rejected("createPdaAccount", 0, "return")
       ELSE Started(i, NewOp("createPdaAccount", "main", "getLatestBlockhash", 0, 0, 1))

useStakeProgram_stake(i, amount) ==
  /\ hook = "useStakeProgram"
  /\ CanInvoke(i)
  /\ IF publicKey = NoKey \/ nonPositive(amount)
       THEN Rejected("stake", amount, "return")
       ELSE Started(i, NewOp("stake", "main", "getLatestBlockhash", amount, 0, 1))

useStakeProgram_unstake(i, amount) ==
  /\ hook = "useStakeProgram"
  /\ CanInvoke(i)
  /\ IF publicKey = NoKey \/ nonPositive(amount)
       THEN Rejected("unstake", amount, "return")
       ELSE Started(i, NewOp("unstake", "main", "getLatestBlockhash", amount, 0, 1))

\* variant: the gate also turns away exactly MIN_CLAIM_POINTS
useStakeProgram_belowMinimum_inclusive(points) == points <= MIN_CLAIM_POINTS

\* the points figure and the minimum-claim gate of claimPoints
useStakeProgram_belowMinimum(points) == points < MIN_CLAIM_POINTS

\* variant: claimPoints does not look at the custodial key
useStakeProgram_noKeypair_unchecked == FALSE
\* if (!pointsAccountKeypair)
useStakeProgram_noKeypair == ~keypair

useStakeProgram_claimPoints(i) ==
  /\ hook = "useStakeProgram"
  /\ CanInvoke(i)
  /\ LET points == calculatedPoints
     IN  IF publicKey = NoKey THEN Rejected("claimPoints", points, "return")
         ELSE IF useStakeProgram_noKeypair THEN Rejected("claimPoints", points, "Points account private key not configured.")
         ELSE IF useStakeProgram_belowMinimum(points)
           THEN Rejected("claimPoints", points, "You need at least 50000 points to claim.")
           ELSE Started(i, NewOp("claimPoints", "main", "getLatestBlockhash", 0, points, 1))

\* variant: the payout is paid and signed by the user's wallet
useStakeProgram_tx_userFeePayer(o) ==
  IF o.leg = "payout"
    THEN Tx("payout",
            <<Ix("transfer", SolToLamports(o.points \div POINTS_PER_SOL), o.key)>>,
            o.key, o.key, "wallet.sendTransaction")
    ELSE Tx(o.op,
            <<Ix(o.op, SolToLamports(o.amount), NoKey)>>,
            o.key, o.key, "wallet.sendTransaction")

\* the transaction each handler builds once its blockhash is there
useStakeProgram_tx(o) ==
  IF o.leg = "payout"
    THEN Tx("payout",
            <<Ix("transfer", SolToLamports(o.points \div POINTS_PER_SOL), o.key)>>,
            Custodial, Custodial, "sendRawTransaction")
    ELSE Tx(o.op,
            <<Ix(o.op, SolToLamports(o.amount), NoKey)>>,
            o.key, o.key, "wallet.sendTransaction")

\* variant: the payout transaction carries the blockhash of the claim transaction
useStakeProgram_recentBlockhash_reuse(o) ==
  IF o.leg = "payout" THEN o.txs[1].recentBlockhash ELSE o.blockhash

\* the blockhash a transaction is given: the one just fetched (claimBlockhash for
\* the claim transaction, blockhash for the payout)
useStakeProgram_recentBlockhash(o) == o.blockhash

\* the transaction with its blockhash, ready to be sent
useStakeProgram_built(o) ==
  [o EXCEPT !.tx = Stamp(useStakeProgram_tx(o), useStakeProgram_recentBlockhash(o))]

\* await connection.getLatestBlockhash('confirmed') returns: the payout leg builds
\* its transfer, signs it and sends it; the other handlers go on to await
\* program.methods.<name>(...).accounts(...).transaction()
useStakeProgram_getLatestBlockhash(i) ==
  /\ hook = "useStakeProgram"
  /\ ops[i].pc = "getLatestBlockhash"
  /\ \E r \in {"ok"} \cup useStakeProgram_rpcRejections :
       LET o == Fetched(ops[i])
       IN  IF r = "ok"
             THEN /\ SetOp(i, IF o.leg = "payout"
                                THEN Await(useStakeProgram_built(o), "sendRawTransaction")
                                ELSE AwaitBuild(o, "build.transaction"))
                  /\ UNCHANGED loading
             ELSE /\ SetOp(i, useStakeProgram_catch(ops[i], r))
                  /\ loading' = FALSE
  /\ UNCHANGED <<balance, stakeAccount, pdaExists, calculatedPoints, chain, clock, config, sync,
                 publicKey, intervalAccount, bgRead, invocations, lastEvent>>

\* await program.methods.<name>(...).accounts(...).transaction() returns: the
\* transaction is given the blockhash and the fee payer and handed to the wallet
useStakeProgram_build(i) ==
  /\ hook = "useStakeProgram"
  /\ ops[i].pc = "build.transaction"
  /\ \E r \in {"ok"} \cup useStakeProgram_rpcRejections :
       LET o == ops[i]
       IN  IF r = "ok"
             THEN /\ SetOp(i, Await(useStakeProgram_built(o), "sendTransaction"))
                  /\ UNCHANGED loading
             ELSE /\ SetOp(i, useStakeProgram_catch(o, r))
                  /\ loading' = FALSE
  /\ UNCHANGED <<balance, stakeAccount, pdaExists, calculatedPoints, chain, clock, config, sync,
                 publicKey, intervalAccount, bgRead, invocations, lastEvent>>

\* the transaction of the handler is on the ledger; a claim instruction takes
\* every point of the position, those earned since its last update included
useStakeProgram_submitted(o) ==
  [Submit(o) EXCEPT !.claimed = IF o.tx.name = "claimPoints"
                                  THEN Checkpoint(chainPos, now) ELSE @]

\* await sendTransaction(tx, connection) / connection.sendRawTransaction(rawTx) returns
useStakeProgram_send(i) ==
  /\ hook = "useStakeProgram"
  /\ ops[i].pc \in {"sendTransaction", "sendRawTransaction"}
  /\ LET o == ops[i]
     IN  \E r \in (SendOutcomes(o.tx) \cup {Unreadable})
                     \ (IF o.leg = "payout" THEN {"UserRejected"} ELSE {}) :
           IF r = "ok"
             THEN /\ SetOp(i, Await(useStakeProgram_submitted(o), "confirmTransaction"))
                  /\ chainPos' = ApplyTx(o.tx).pos
                  /\ chainBal' = ApplyTx(o.tx).bal
                  /\ UNCHANGED loading
             ELSE /\ SetOp(i, useStakeProgram_catch(o, r))
                  /\ loading' = FALSE
                  /\ UNCHANGED chain
  /\ UNCHANGED <<balance, stakeAccount, pdaExists, calculatedPoints, clock, config, sync,
                 publicKey, intervalAccount, bgRead, invocations, lastEvent>>

\* what follows a confirmed claim transaction: the payout leg, or the late
\* zero-payout return
useStakeProgram_afterClaim(o) ==
  LET solToClaim == o.points \div POINTS_PER_SOL
  IN  IF solToClaim > 0
        THEN Await([o EXCEPT !.leg = "payout"], "getLatestBlockhash")
        ELSE Finish(Note(o, <<"Error", "You need at least 100000 points to claim 1 SOL.">>))

useStakeProgram_successNote(o) ==
  CASE o.leg = "payout" -> <<"Points Claimed", "claimPoints">>
    [] o.op = "createPdaAccount" -> <<"Account Created", "createPdaAccount">>
    [] o.op = "stake" -> <<"Staked Successfully", "stake">>
    [] o.op = "unstake" -> <<"Unstaked Successfully", "unstake">>

\* variant: the return inside the try block of claimPoints leaves without the finally
useStakeProgram_finally_skippedOnReturn == loading
\* finally { setLoading(false) }, run by the return inside the try block as well
useStakeProgram_finally == FALSE

\* await connection.confirmTransaction(...) returns
useStakeProgram_confirmTransaction(i) ==
  /\ hook = "useStakeProgram"
  /\ ops[i].pc = "confirmTransaction"
  /\ \E r \in {"ok"} \cup useStakeProgram_confirmRejections :
       LET o == ops[i]
           next == IF o.op = "claimPoints" /\ o.leg = "main"
                     THEN useStakeProgram_afterClaim(Confirm(o))
                     ELSE Await(Note(Confirm(o), useStakeProgram_successNote(o)),
                                "fetchStakeAccount")
       IN  IF r = "ok"
             THEN /\ SetOp(i, next)
                  /\ loading' = (IF next.pc = "done" THEN useStakeProgram_finally ELSE loading)
             ELSE /\ SetOp(i, useStakeProgram_catch(o, r))
                  /\ loading' = FALSE
  /\ UNCHANGED <<balance, stakeAccount, pdaExists, calculatedPoints, chain, clock, config, sync,
                 publicKey, intervalAccount, bgRead, invocations, lastEvent>>

\* variant: an account that is not there is read as an empty position
useStakeProgram_readAccount_emptyPosition(ok) ==
  IF ok THEN (IF chainPos # NoAccount THEN chainPos ELSE Position(LamZero, 0, 0))
        ELSE NoAccount
\* what fetchStakeAccount publishes when getAccountInfo returns (ok) or throws
useStakeProgram_readAccount(ok) ==
  IF ok /\ chainPos # NoAccount THEN chainPos ELSE NoAccount
useStakeProgram_readPoints(ok) ==
  IF ok /\ chainPos # NoAccount THEN totalClaimablePoints(chainPos, now) ELSE 0
\* what fetchWalletBalance publishes when getBalance returns (ok) or throws
useStakeProgram_readBalance(ok) ==
  IF ok THEN chainBal ELSE LamZero
\* variant: the catch of fetchWalletBalance also clears the position
useStakeProgram_accountAfterBalance_cleared(ok) ==
  IF ok THEN stakeAccount ELSE NoAccount
\* the published position after fetchWalletBalance: its try and its catch set
\* the wallet balance and nothing else
useStakeProgram_accountAfterBalance(ok) == stakeAccount

\* await fetchStakeAccount() inside a handler returns
useStakeProgram_refreshStakeAccount(i) ==
  /\ hook = "useStakeProgram"
  /\ ops[i].pc = "fetchStakeAccount"
  /\ \E ok \in BOOLEAN :
       /\ stakeAccount' = useStakeProgram_readAccount(ok)
       /\ calculatedPoints' = useStakeProgram_readPoints(ok)
  /\ SetOp(i, Await(Reread(ops[i], "position"), "fetchWalletBalance"))
  /\ UNCHANGED <<loading, balance, pdaExists, chain, clock, config, sync,
                 publicKey, intervalAccount, bgRead, invocations, lastEvent>>

\* await fetchWalletBalance() inside a handler returns; finally setLoading(false)
useStakeProgram_refreshWalletBalance(i) ==
  /\ hook = "useStakeProgram"
  /\ ops[i].pc = "fetchWalletBalance"
  /\ \E ok \in BOOLEAN :
       /\ balance' = useStakeProgram_readBalance(ok)
       /\ stakeAccount' = useStakeProgram_accountAfterBalance(ok)
  /\ SetOp(i, Finish(Reread(ops[i], "balance")))
  /\ loading' = FALSE
  /\ UNCHANGED <<pdaExists, calculatedPoints, chain, clock, config, sync,
                 publicKey, intervalAccount, bgRead, invocations, lastEvent>>

\* fetchStakeAccount from the effect, the refresh interval or the caller
useStakeProgram_fetchStakeAccount ==
  /\ hook = "useStakeProgram"
  /\ publicKey # NoKey
  /\ \E ok \in BOOLEAN :
       /\ stakeAccount' = useStakeProgram_readAccount(ok)
       /\ calculatedPoints' = useStakeProgram_readPoints(ok)
  /\ UNCHANGED <<loading, balance, pdaExists, chain, clock, config, sync, ops,
                 publicKey, intervalAccount, bgRead, invocations, lastEvent>>

\* fetchWalletBalance from the effect or the caller
useStakeProgram_fetchWalletBalance ==
  /\ hook = "useStakeProgram"
  /\ publicKey # NoKey
  /\ \E ok \in BOOLEAN :
       /\ balance' = useStakeProgram_readBalance(ok)
       /\ stakeAccount' = useStakeProgram_accountAfterBalance(ok)
  /\ UNCHANGED <<loading, pdaExists, calculatedPoints, chain, clock, config, sync,
                 ops, publicKey, intervalAccount, bgRead, invocations, lastEvent>>

\* the 30 s points interval: recomputes from the stakeAccount its closure captured
\* (stakedAmount in lamports, as fetchStakeAccount stored it)
useStakeProgram_intervalPoints(acct, t) ==
  LET timeElapsed == t - acct.lastUpdatedTime
      pointsEarned == IF acct.stakedAmount # LamZero /\ timeElapsed > 0
                        THEN PointsEarned(acct.stakedAmount, timeElapsed)
                        ELSE 0
  IN  acct.totalPoints + pointsEarned

useStakeProgram_interval ==
  /\ hook = "useStakeProgram"
  /\ "points" \in timers
  /\ intervalAccount # NoAccount
  /\ calculatedPoints' = useStakeProgram_intervalPoints(intervalAccount, now)
  /\ UNCHANGED <<loading, balance, stakeAccount, pdaExists, chain, clock, config, sync, ops,
                 publicKey, intervalAccount, bgRead, invocations, lastEvent>>

\* no background read in flight
NoPending == [balance |-> 0, position |-> 0]
\* one more call of each kind of reads is in flight
Issue(p, reads) ==
  [k \in DOMAIN p |-> IF k \in reads THEN p[k] + 1 ELSE p[k]]
\* a call of the kind has returned
Returned(p, kind) == [p EXCEPT ![kind] = @ - 1]
\* the model follows at most MaxPending calls of a kind at a time
CanIssue(reads) == \A k \in reads : pending[k] < MaxPending

\* the reads the effect body issues: fetchStakeAccount() and fetchWalletBalance(),
\* each of which returns at once without a wallet
useStakeProgram_effectReads(key) ==
  IF key = NoKey THEN {} ELSE {"position", "balance"}

\* the wallet connects or disconnects: the callbacks change identity, so the
\* effect's cleanup clears both intervals and the effect runs again: it issues
\* its reads and arms both intervals, whose closure captures the current
\* stakeAccount; nothing is reset
useStakeProgram_walletChange ==
  /\ hook = "useStakeProgram"
  /\ publicKey' = (IF publicKey = NoKey THEN User ELSE NoKey)
  /\ intervalAccount' = stakeAccount
  /\ timers' = {"points", "refresh"}
  /\ CanIssue(useStakeProgram_effectReads(publicKey'))
  /\ pending' = Issue(pending, useStakeProgram_effectReads(publicKey'))
  /\ UNCHANGED <<hookState, chain, clock, config, ops, bgRead, invocations, lastEvent>>

\* the reads one tick of the 30 s refresh interval issues: fetchStakeAccount()
useStakeProgram_refreshReads(key) ==
  IF key = NoKey THEN {} ELSE {"position"}

\* the refresh interval fires
useStakeProgram_refreshInterval ==
  /\ hook = "useStakeProgram"
  /\ "refresh" \in timers
  /\ CanIssue(useStakeProgram_refreshReads(publicKey))
  /\ pending' = Issue(pending, useStakeProgram_refreshReads(publicKey))
  /\ UNCHANGED <<hookState, chain, clock, config, timers, ops, publicKey, intervalAccount,
                 bgRead, invocations, lastEvent>>

\* variant: the finally of fetchStakeAccount clears the loading flag of the handlers
useStakeProgram_loadingAfterRead_cleared == FALSE
\* the loading flag after fetchStakeAccount: it sets and clears refreshing, a
\* flag of its own
useStakeProgram_loadingAfterRead == loading

\* a fetchStakeAccount() issued by the effect or the interval returns
useStakeProgram_fetchStakeAccount_returns ==
  /\ hook = "useStakeProgram"
  /\ pending.position > 0
  /\ \E ok \in BOOLEAN :
       /\ stakeAccount' = useStakeProgram_readAccount(ok)
       /\ calculatedPoints' = useStakeProgram_readPoints(ok)
  /\ loading' = useStakeProgram_loadingAfterRead
  /\ pending' = Returned(pending, "position")
  /\ UNCHANGED <<balance, pdaExists, chain, clock, config, timers, ops,
                 publicKey, intervalAccount, bgRead, invocations, lastEvent>>

\* a fetchWalletBalance() issued by the effect returns
useStakeProgram_fetchWalletBalance_returns ==
  /\ hook = "useStakeProgram"
  /\ pending.balance > 0
  /\ \E ok \in BOOLEAN :
       /\ balance' = useStakeProgram_readBalance(ok)
       /\ stakeAccount' = useStakeProgram_accountAfterBalance(ok)
  /\ pending' = Returned(pending, "balance")
  /\ UNCHANGED <<loading, pdaExists, calculatedPoints, chain, clock, config,
                 timers, ops, publicKey, intervalAccount, bgRead, invocations, lastEvent>>

\* ------------------------------------------------------------------------
\* what an awaited call rejects with, and the catch blocks as functions of the
\* operation and the thrown value
\* ------------------------------------------------------------------------
ErrorCodes == {6000, 6001, 6002, 6003, 6004, 6005}

\* IDL.errors: the message of each code
idlErrorMsg(code) ==
  CASE code = 6000 -> "Amount must be greater than 0"
    [] code = 6001 -> "Insufficient staked amount"
    [] code = 6002 -> "Unauthorized access"
    [] code = 6003 -> "Arithmetic overflow"
    [] code = 6004 -> "Arithmetic underflow"
    [] code = 6005 -> "Invalid timestamp"

\* a message: of a program error, naming its code in decimal ("number") or only
\* in hexadecimal ("hex"), or of another failure
Message(kind, code, form) == [kind |-> kind, code |-> code, form |-> form]
NoMessage == Message("none", 0, "none")
\* a message that is truthy and not a string (a number, an object)
NotAString == Message("notAString", 0, "none")
\* an Error with the message, and with a getLogs method ("resolves" / "rejects":
\* what the promise of getLogs() does) or without one ("none")
ErrorOf(message, getLogs) == [shape |-> "Error", message |-> message, getLogs |-> getLogs]
\* a thrown value that is not an Error
NotAnError(shape) == [shape |-> shape, message |-> NoMessage, getLogs |-> "none"]
\* the TypeError a catch block raises when it reads error.message of null or
\* calls includes on an undefined message
TypeError == ErrorOf(Message("TypeError", 0, "text"), "none")
\* what a remote call rejects with: an Error with a message, a value without a
\* message property (a string, a plain object), a value whose message is not a
\* string, or null / undefined
ThrownValues ==
  {ErrorOf(Message("ProgramError", c, f), g) :
     c \in ErrorCodes, f \in {"number", "hex"}, g \in {"none", "resolves", "rejects"}}
    \cup {ErrorOf(Message(k, 0, "text"), g) :
            k \in ErrKinds, g \in {"none", "resolves", "rejects"}}
    \cup {NotAnError("noMessage"), NotAnError("null"),
          [NotAnError("notAStringMessage") EXCEPT !.message = NotAString]}
CatchOps == {"createPdaAccount", "stake", "unstake", "claimPoints"}

\* error.message.includes("<code>")
MessageIncludes(error, code) ==
  /\ error.message.kind = "ProgramError"
  /\ error.message.form = "number"
  /\ error.message.code = code

Toast(text, detail) == [escaped |-> FALSE, toast |-> <<"Error", text, detail>>]
\* a toast whose description is a fixed text
FixedToast(text) == [escaped |-> FALSE, toast |-> <<"Error", text>>]
\* a TypeError raised inside the catch block: the finally runs, the promise rejects
Escapes == [escaped |-> TRUE, toast |-> <<>>]

failedText(op) ==
  CASE op = "createPdaAccount" -> "Failed to create account"
    [] op = "stake" -> "Staking failed"
    [] op = "unstake" -> "Unstaking failed"
    [] op = "claimPoints" -> "Claiming failed"

\* the catch blocks of hooks/useStaking.ts
useStakingTs_catchToast(op, error) ==
  IF error.shape = "null" THEN Escapes
  ELSE IF op \in {"createPdaAccount", "claimPoints"}
    THEN Toast(failedText(op), error.message)
  ELSE IF error.shape \in {"noMessage", "notAStringMessage"} THEN Escapes
  ELSE IF op = "stake"
    THEN IF \E c \in {6000, 6001, 6002, 6003} : MessageIncludes(error, c)
           THEN FixedToast(idlErrorMsg(CHOOSE c \in {6000, 6001, 6002, 6003} :
                                         MessageIncludes(error, c)))
           ELSE Toast(failedText(op), error.message)
    ELSE IF \E c \in {6001, 6004} : MessageIncludes(error, c)
           THEN FixedToast(idlErrorMsg(CHOOSE c \in {6001, 6004} : MessageIncludes(error, c)))
           ELSE Toast(failedText(op), error.message)

\* the catch blocks of useStaking (part_002): in stake, unstake and claimPoints
\* typeof error.getLogs === "function" and await error.getLogs(), whose
\* rejection leaves the catch block; then the template with error.message
useStaking_catchToast(op, error) ==
  IF error.shape = "null" THEN Escapes
  ELSE IF op # "createPdaAccount" /\ error.getLogs = "rejects" THEN Escapes
  ELSE Toast(failedText(op), error.message)

\* the catch blocks of useStakeProgram: error.message || default, then
\* errorMsg.includes and the already-processed replacement
useStakeProgram_catchToast(op, error) ==
  IF error.shape \in {"null", "notAStringMessage"} THEN Escapes
  ELSE IF error.shape = "noMessage" THEN FixedToast(defaultText(op))
  ELSE IF error.message.kind = "ProgramError" THEN Toast("message", error.message)
  ELSE FixedToast(useStakeProgram_errorMsg(op, error.message.kind))

\* ------------------------------------------------------------------------
\* useStaking (src/unnamed/part_002) and useStakingTs (src/src/hooks/useStaking.ts)
\* ------------------------------------------------------------------------

failedNote(o, err) ==
  CASE o.leg = "init" -> <<"Error", "Failed to create account", err>>
    [] o.op = "stake" -> <<"Error", "Staking failed", err>>
    [] o.op = "unstake" -> <<"Error", "Unstaking failed", err>>
    [] o.op = "claimPoints" -> <<"Error", "Claiming failed", err>>

successNote(o) ==
  CASE o.leg = "init" -> <<"Success", "Account created successfully">>
    [] o.op = "stake" -> <<"Success", "Successfully staked">>
    [] o.op = "unstake" -> <<"Success", "Successfully unstaked">>
    [] o.op = "claimPoints" -> <<"Success", "Successfully claimed">>

\* the catch and finally blocks: of createPdaAccount (return false, after which
\* stake returns through its own finally) and of stake / unstake / claimPoints
useStaking_catch(o, err) == Finish(Note(o, failedNote(o, err)))

\* stake's first await after setLoading(true): the transaction build of the
\* nested createPdaAccount when the PDA is not known to exist, else the balance
\* fetch
useStaking_stakeStart(amount) ==
  IF ~pdaExists
    THEN NewOp("stake", "init", "build.transaction", amount, 0, 0)
    ELSE NewOp("stake", "main", "getBalance", amount, 0, 1)

\* the loading guard of stake, unstake and claimPoints
useStaking_inProgress == loading

useStaking_stake(i, amount) ==
  /\ hook = "useStaking"
  /\ CanInvoke(i)
  /\ IF useStaking_inProgress THEN Rejected("stake", amount, "Please wait")
     ELSE IF publicKey = NoKey THEN Rejected("stake", amount, "Wallet not connected")
     ELSE IF nonPositive(amount) THEN Rejected("stake", amount, "Amount must be greater than 0")
     ELSE Started(i, useStaking_stakeStart(amount))

\* stakeAccount.stakedAmount.toNumber() and lamports > stakedLamports: toNumber
\* throws from 2^53 on, before the comparison is made
useStaking_exceedsStaked(amount) ==
  IF ~LamLess(stakeAccount.stakedAmount, TwoTo53) THEN "throws"
  ELSE IF LamLess(stakeAccount.stakedAmount, SolToLamports(amount)) THEN "exceeds"
  ELSE "within"

useStaking_unstake(i, amount) ==
  /\ hook = "useStaking"
  /\ CanInvoke(i)
  /\ IF useStaking_inProgress THEN Rejected("unstake", amount, "Please wait")
     ELSE IF publicKey = NoKey THEN Rejected("unstake", amount, "Wallet not connected")
     ELSE IF stakeAccount = NoAccount THEN Rejected("unstake", amount, "No stake account found")
     ELSE IF nonPositive(amount) THEN Rejected("unstake", amount, "Amount must be greater than 0")
     ELSE IF useStaking_exceedsStaked(amount) = "throws"
       THEN Rejected("unstake", amount,
                     "promise rejected: Number can only safely store up to 53 bits")
     ELSE IF useStaking_exceedsStaked(amount) = "exceeds"
       THEN Rejected("unstake", amount, "Cannot unstake more than currently staked amount")
       ELSE Started(i, NewOp("unstake", "main", "build.transaction", amount, 0, 0))

noPointsToClaim == stakeAccount = NoAccount \/ stakeAccount.totalPoints = 0

useStaking_claimPoints(i) ==
  /\ hook = "useStaking"
  /\ CanInvoke(i)
  /\ IF useStaking_inProgress THEN Rejected("claimPoints", 0, "Please wait")
     ELSE IF publicKey = NoKey THEN Rejected("claimPoints", 0, "Wallet not connected")
     ELSE IF noPointsToClaim THEN Rejected("claimPoints", 0, "No points to claim")
     ELSE Started(i, NewOp("claimPoints", "main", "build.transaction", 0,
                           stakeAccount.totalPoints, 0))

\* the transaction of each handler; stake adds a transfer to the platform
\* account in front of the stake instruction
useStaking_tx(o) ==
  CASE o.leg = "init" ->
         Tx("createPdaAccount", <<Ix("createPdaAccount", LamZero, NoKey)>>,
            o.key, o.key, "sendRawTransaction")
    [] o.op = "stake" ->
         Tx("stake", <<Ix("transfer", SolToLamports(o.amount), Platform),
                       Ix("stake", SolToLamports(o.amount), NoKey)>>,
            o.key, o.key, "sendRawTransaction")
    [] OTHER ->
         Tx(o.op, <<Ix(o.op, SolToLamports(o.amount), NoKey)>>,
            o.key, o.key, "sendRawTransaction")

\* await program.methods.<name>(...).accounts(...).transaction() (or
\* .instruction() in stake) returns: the handler calls getLatestBlockhash
useStaking_build(i) ==
  /\ hook = "useStaking"
  /\ ops[i].pc \in {"build.transaction", "build.instruction"}
  /\ \E r \in {"ok", "Network"} :
       LET o == ops[i]
       IN  IF r = "ok"
             THEN /\ SetOp(i, Await(o, "getLatestBlockhash"))
                  /\ UNCHANGED loading
             ELSE /\ SetOp(i, useStaking_catch(o, r))
                  /\ loading' = FALSE
  /\ UNCHANGED <<balance, stakeAccount, pdaExists, calculatedPoints, chain, clock, config, sync,
                 publicKey, intervalAccount, bgRead, invocations, lastEvent>>

\* await connection.getLatestBlockhash() returns: tx.recentBlockhash = blockhash;
\* if (signTransaction) signedTx = await signTransaction(tx); without it the
\* unsigned transaction is serialized, which throws
useStaking_getLatestBlockhash(i) ==
  /\ hook = "useStaking"
  /\ ops[i].pc = "getLatestBlockhash"
  /\ \E r \in {"ok", "Network"} :
       LET o == Fetched(ops[i])
           built == [o EXCEPT !.tx = Stamp(useStaking_tx(o), o.blockhash)]
       IN  IF r = "ok"
             THEN IF signTransaction
                    THEN /\ SetOp(i, AwaitWallet(built, "signTransaction"))
                         /\ UNCHANGED loading
                    ELSE /\ SetOp(i, useStaking_catch(built, "Signature verification failed"))
                         /\ loading' = FALSE
             ELSE /\ SetOp(i, useStaking_catch(ops[i], r))
                  /\ loading' = FALSE
  /\ UNCHANGED <<balance, stakeAccount, pdaExists, calculatedPoints, chain, clock, config, sync,
                 publicKey, intervalAccount, bgRead, invocations, lastEvent>>

\* await signTransaction(tx) returns
useStaking_signTransaction(i) ==
  /\ hook = "useStaking"
  /\ ops[i].pc = "signTransaction"
  /\ \E r \in {"ok", "UserRejected"} :
       LET o == ops[i]
       IN  IF r = "ok"
             THEN /\ SetOp(i, Await(o, "sendRawTransaction"))
                  /\ UNCHANGED loading
             ELSE /\ SetOp(i, useStaking_catch(o, r))
                  /\ loading' = FALSE
  /\ UNCHANGED <<balance, stakeAccount, pdaExists, calculatedPoints, chain, clock, config, sync,
                 publicKey, intervalAccount, bgRead, invocations, lastEvent>>

\* the catch of stake / unstake / claimPoints with an error that has getLogs (a
\* SendTransactionError): it awaits error.getLogs() before the toast
useStaking_awaitLogs(o, err) == [o EXCEPT !.pc = "error.getLogs", !.err = err]

\* await connection.sendRawTransaction(rawTx) returns or rejects, with a
\* SendTransactionError (getLogs) or with another error; the catch of
\* createPdaAccount does not look for getLogs
useStaking_sendRawTransaction(i) ==
  /\ hook = "useStaking"
  /\ ops[i].pc = "sendRawTransaction"
  /\ LET o == ops[i]
     IN  \E r \in SendOutcomes(o.tx) \ {"UserRejected"}, getLogs \in BOOLEAN :
           IF r = "ok"
             THEN /\ ~getLogs
                  /\ SetOp(i, Await(Submit(o), "confirmTransaction"))
                  /\ chainPos' = ApplyTx(o.tx).pos
                  /\ chainBal' = ApplyTx(o.tx).bal
                  /\ UNCHANGED loading
             ELSE IF getLogs /\ o.leg # "init"
               THEN /\ SetOp(i, useStaking_awaitLogs(o, r))
                    /\ UNCHANGED <<loading, chain>>
               ELSE /\ SetOp(i, useStaking_catch(o, r))
                    /\ loading' = FALSE
                    /\ UNCHANGED chain
  /\ UNCHANGED <<balance, stakeAccount, pdaExists, calculatedPoints, clock, config, sync,
                 publicKey, intervalAccount, bgRead, invocations, lastEvent>>

\* await error.getLogs() in the catch returns: the toast and the finally follow;
\* when it rejects the error leaves the catch block: no toast, the finally runs
\* and the promise of the handler rejects
useStaking_getLogs(i) ==
  /\ hook = "useStaking"
  /\ ops[i].pc = "error.getLogs"
  /\ \E r \in {"ok", "throws"} :
       LET o == ops[i]
       IN  SetOp(i, IF r = "ok" THEN useStaking_catch(o, o.err) ELSE Finish(o))
  /\ loading' = FALSE
  /\ UNCHANGED <<balance, stakeAccount, pdaExists, calculatedPoints, chain, clock, config, sync,
                 publicKey, intervalAccount, bgRead, invocations, lastEvent>>

\* createPdaAccount confirmed: toast, setPdaExists(true), return true through its
\* finally (setLoading(false)); stake goes on to its balance fetch
useStaking_created(o) ==
  Await([Note(Confirm(o), successNote(o)) EXCEPT !.leg = "main"], "getBalance")

\* a handler's own transaction confirmed: toast, then the refresh
useStaking_confirmed(o) ==
  Await(Note(Confirm(o), successNote(o)),
        IF o.op = "claimPoints" THEN "checkPDAExists" ELSE "fetchBalance")

\* await connection.confirmTransaction(signature, "confirmed") returns
useStaking_confirmTransaction(i) ==
  /\ hook = "useStaking"
  /\ ops[i].pc = "confirmTransaction"
  /\ \E r \in {"ok", "Network"} :
       LET o == ops[i]
       IN  IF r = "ok"
             THEN IF o.leg = "init"
                    THEN /\ SetOp(i, useStaking_created(o))
                         /\ pdaExists' = TRUE
                         /\ loading' = FALSE
                    ELSE /\ SetOp(i, useStaking_confirmed(o))
                         /\ UNCHANGED <<pdaExists, loading>>
             ELSE /\ SetOp(i, useStaking_catch(o, r))
                  /\ loading' = FALSE
                  /\ UNCHANGED pdaExists
  /\ UNCHANGED <<balance, stakeAccount, calculatedPoints, chain, clock, config, sync,
                 publicKey, intervalAccount, bgRead, invocations, lastEvent>>

\* walletBalanceLamports < lamports + feeBuffer
useStaking_insufficient(walletBalanceLamports, amount) ==
  LamLess(walletBalanceLamports, LamAdd(SolToLamports(amount), Lam(0, feeBuffer)))

\* await connection.getBalance(publicKey) in stake returns: the fee buffer test,
\* getPlatformPubkey() (throws without VITE_PLATFORM_PRIVATE_KEY), then the await
\* of program.methods.stake(...).accounts(...).instruction()
useStaking_getBalance(i) ==
  /\ hook = "useStaking"
  /\ ops[i].pc = "getBalance"
  /\ \E r \in {"ok", "Network"} :
       LET o == ops[i]
       IN  IF r = "ok"
             THEN IF useStaking_insufficient(chainBal, o.amount)
                    THEN /\ SetOp(i, Finish(Note(o, <<"Error",
                                   "Insufficient balance (including fee buffer)">>)))
                         /\ loading' = FALSE
                    ELSE IF ~platformKey
                      THEN /\ SetOp(i, useStaking_catch(o, "Platform private key not set in env"))
                           /\ loading' = FALSE
                      ELSE /\ SetOp(i, AwaitBuild(o, "build.instruction"))
                           /\ UNCHANGED loading
             ELSE /\ SetOp(i, useStaking_catch(o, r))
                  /\ loading' = FALSE
  /\ UNCHANGED <<balance, stakeAccount, pdaExists, calculatedPoints, chain, clock, config, sync,
                 publicKey, intervalAccount, bgRead, invocations, lastEvent>>

\* ---- useStakingTs (src/src/hooks/useStaking.ts)

\* amount > balance, both in SOL
useStakingTs_insufficient(amount) == LamLess(balance, SolToLamports(amount))

\* the transaction of each handler, as program.methods.<name>(...).accounts(...)
\* .transaction() resolves it
useStakingTs_tx(op, leg, amount, key) ==
  IF leg = "init"
    THEN Tx("createPdaAccount", <<Ix("createPdaAccount", LamZero, NoKey)>>,
            key, key, "wallet.sendTransaction")
    ELSE Tx(op, <<Ix(op, SolToLamports(amount), NoKey)>>,
            key, key, "wallet.sendTransaction")

\* what sendTransaction rejects with: any thrown value, the program errors with
\* their code in decimal
useStakingTs_rejections ==
  {e \in ThrownValues : e.message.form # "hex" /\ e.getLogs = "none"}

\* the catch and finally blocks of hooks/useStaking.ts: of stake / unstake /
\* claimPoints, and of the nested createPdaAccount (toast, return false, after
\* which stake returns through its own finally); a TypeError raised inside the
\* catch of createPdaAccount rejects its promise and lands in the catch of stake
useStakingTs_catch(o, error) ==
  LET caught == useStakingTs_catchToast(IF o.leg = "init" THEN "createPdaAccount" ELSE o.op,
                                        error)
  IN  IF ~caught.escaped THEN Finish(Note(o, caught.toast))
      ELSE IF o.leg = "init"
        THEN Finish(Note(o, useStakingTs_catchToast(o.op, TypeError).toast))
        ELSE Finish(o)

\* the first await of each handler after setLoading(true): the transaction build
useStakingTs_start(op, leg, amount, points) ==
  NewOp(op, leg, "build.transaction", amount, points, 0)

\* await program.methods.<name>(...).accounts(...).transaction() returns: the
\* handler hands the transaction to the wallet
useStakingTs_build(i) ==
  /\ hook = "useStakingTs"
  /\ ops[i].pc = "build.transaction"
  /\ \E r \in {"ok", "Network"} :
       LET o == ops[i]
       IN  IF r = "ok"
             THEN /\ SetOp(i, Await([o EXCEPT !.tx = useStakingTs_tx(o.op, o.leg, o.amount, o.key)],
                                   "sendTransaction"))
                  /\ UNCHANGED loading
             ELSE /\ SetOp(i, useStakingTs_catch(o, ErrorOf(Message(r, 0, "text"), "none")))
                  /\ loading' = FALSE
  /\ UNCHANGED <<balance, stakeAccount, pdaExists, calculatedPoints, chain, clock, config, sync,
                 publicKey, intervalAccount, bgRead, invocations, lastEvent>>

useStakingTs_stake(i, amount) ==
  /\ hook = "useStakingTs"
  /\ CanInvoke(i)
  /\ IF publicKey = NoKey THEN Rejected("stake", amount, "Wallet not connected")
     ELSE IF nonPositive(amount) THEN Rejected("stake", amount, "Amount must be greater than 0")
     ELSE IF useStakingTs_insufficient(amount)
       THEN Rejected("stake", amount, "Insufficient balance")
       ELSE Started(i, useStakingTs_start("stake", IF pdaExists THEN "main" ELSE "init",
                                          amount, 0))

useStakingTs_unstake(i, amount) ==
  /\ hook = "useStakingTs"
  /\ CanInvoke(i)
  /\ IF publicKey = NoKey THEN Rejected("unstake", amount, "Wallet not connected")
     ELSE IF stakeAccount = NoAccount THEN Rejected("unstake", amount, "No stake account found")
     ELSE IF nonPositive(amount) THEN Rejected("unstake", amount, "Amount must be greater than 0")
     ELSE Started(i, useStakingTs_start("unstake", "main", amount, 0))

useStakingTs_claimPoints(i) ==
  /\ hook = "useStakingTs"
  /\ CanInvoke(i)
  /\ IF publicKey = NoKey THEN Rejected("claimPoints", 0, "Wallet not connected")
     ELSE IF noPointsToClaim THEN Rejected("claimPoints", 0, "No points to claim")
     ELSE Started(i, useStakingTs_start("claimPoints", "main", 0, stakeAccount.totalPoints))

\* await sendTransaction(tx, connection) returns, or rejects
useStakingTs_sendTransaction(i) ==
  /\ hook = "useStakingTs"
  /\ ops[i].pc = "sendTransaction"
  /\ LET o == ops[i]
     IN  \/ /\ ApplyTx(o.tx).ok
            /\ SetOp(i, Await(Submit(o), "confirmTransaction"))
            /\ chainPos' = ApplyTx(o.tx).pos
            /\ chainBal' = ApplyTx(o.tx).bal
            /\ UNCHANGED loading
         \/ \E error \in useStakingTs_rejections :
              /\ SetOp(i, useStakingTs_catch(o, error))
              /\ loading' = FALSE
              /\ UNCHANGED chain
  /\ UNCHANGED <<balance, stakeAccount, pdaExists, calculatedPoints, clock, config, sync,
                 publicKey, intervalAccount, bgRead, invocations, lastEvent>>

\* createPdaAccount confirmed: toast, setPdaExists(true), return true through its
\* finally (setLoading(false)); stake goes on to build its own transaction
useStakingTs_created(o) ==
  AwaitBuild([Note(Confirm(o), successNote(o)) EXCEPT !.leg = "main"], "build.transaction")

\* await connection.confirmTransaction(signature, 'confirmed') returns
useStakingTs_confirmTransaction(i) ==
  /\ hook = "useStakingTs"
  /\ ops[i].pc = "confirmTransaction"
  /\ \E r \in {"ok", "Network"} :
       LET o == ops[i]
       IN  IF r = "ok"
             THEN IF o.leg = "init"
                    THEN /\ SetOp(i, useStakingTs_created(o))
                         /\ pdaExists' = TRUE
                         /\ loading' = FALSE
                    ELSE /\ SetOp(i, useStaking_confirmed(o))
                         /\ UNCHANGED <<pdaExists, loading>>
             ELSE /\ SetOp(i, useStakingTs_catch(o, ErrorOf(Message(r, 0, "text"), "none")))
                  /\ loading' = FALSE
                  /\ UNCHANGED pdaExists
  /\ UNCHANGED <<balance, stakeAccount, calculatedPoints, chain, clock, config, sync,
                 publicKey, intervalAccount, bgRead, invocations, lastEvent>>

\* ---- the second useStaking of src/unnamed/part_002 (react-hot-toast): its
\* handlers build and send no transaction; they notify success and re-read

\* if (!publicKey || !signTransaction)
useStakingMock_noWallet == publicKey = NoKey \/ ~signTransaction

\* the handler has notified and awaits the first of its reads
useStakingMock_started(i, o, pc) ==
  /\ invocations' = invocations + 1
  /\ lastEvent' = Event(o.op, o.amount, "started")
  /\ ops' = [ops EXCEPT ![i] = Await(o, pc)]
  /\ UNCHANGED <<balance, stakeAccount, calculatedPoints, chain, clock, config, sync,
                 publicKey, intervalAccount, bgRead>>

\* stake: with the PDA not known to exist the nested createPdaAccount, which
\* awaits nothing, notifies, sets pdaExists and clears loading in its finally
useStakingMock_stake(i, amount) ==
  /\ hook = "useStakingMock"
  /\ CanInvoke(i)
  /\ IF useStakingMock_noWallet THEN Rejected("stake", amount, "Wallet not connected")
     ELSE IF nonPositive(amount) THEN Rejected("stake", amount, "Amount must be greater than 0")
     ELSE IF useStakingTs_insufficient(amount)
       THEN Rejected("stake", amount, "Insufficient balance")
     ELSE LET o == NewOp("stake", "main", "idle", amount, 0, 0)
              staked == <<"Success", "Successfully staked", amount>>
          IN  IF pdaExists
                THEN /\ useStakingMock_started(i, Note(o, staked), "fetchBalance")
                     /\ loading' = TRUE
                     /\ UNCHANGED pdaExists
                ELSE /\ useStakingMock_started(
                          i, Note(Note(o, <<"Success", "PDA account would be created here">>),
                                  staked), "fetchBalance")
                     /\ loading' = FALSE
                     /\ pdaExists' = TRUE

useStakingMock_unstake(i, amount) ==
  /\ hook = "useStakingMock"
  /\ CanInvoke(i)
  /\ IF useStakingMock_noWallet THEN Rejected("unstake", amount, "Wallet not connected")
     ELSE IF stakeAccount = NoAccount THEN Rejected("unstake", amount, "No stake account found")
     ELSE IF nonPositive(amount) THEN Rejected("unstake", amount, "Amount must be greater than 0")
     ELSE /\ useStakingMock_started(
               i, Note(NewOp("unstake", "main", "idle", amount, 0, 0),
                       <<"Success", "Successfully unstaked", amount>>), "fetchBalance")
          /\ loading' = TRUE
          /\ UNCHANGED pdaExists

useStakingMock_claimPoints(i) ==
  /\ hook = "useStakingMock"
  /\ CanInvoke(i)
  /\ IF useStakingMock_noWallet THEN Rejected("claimPoints", 0, "Wallet not connected")
     ELSE IF noPointsToClaim THEN Rejected("claimPoints", 0, "No points to claim")
     ELSE /\ useStakingMock_started(
               i, Note(NewOp("claimPoints", "main", "idle", 0, stakeAccount.totalPoints, 0),
                       <<"Success", "Successfully claimed", stakeAccount.totalPoints>>),
               "checkPDAExists")
          /\ loading' = TRUE
          /\ UNCHANGED pdaExists

\* ---- the reads, the same code in the three hooks
\* fetchBalance: setBalance on success, a toast and no change on failure
fetchBalance_result(ok) == IF ok THEN chainBal ELSE balance
\* checkPDAExists: accountInfo !== null, false when getAccountInfo throws
checkPDAExists(ok) == ok /\ chainPos # NoAccount
\* getStakeAccount: the decoded account, null when getAccountInfo throws
getStakeAccount(ok) == IF ok /\ chainPos # NoAccount THEN chainPos ELSE NoAccount

IsStaking == hook \in {"useStaking", "useStakingTs"}
\* the hooks with fetchBalance and the two-await fetchStakeAccount
HasReads == IsStaking \/ hook = "useStakingMock"

\* the catch of fetchBalance: a toast of its own
fetchBalance_note(o, ok) ==
  IF ok THEN o ELSE Note(o, <<"Error", "Failed to fetch wallet balance">>)

\* await fetchBalance() inside stake / unstake returns
refreshBalance(i) ==
  /\ HasReads
  /\ ops[i].pc = "fetchBalance"
  /\ \E ok \in BOOLEAN :
       /\ balance' = fetchBalance_result(ok)
       /\ SetOp(i, Await(Reread(fetchBalance_note(ops[i], ok), "balance"), "checkPDAExists"))
  /\ UNCHANGED <<loading, stakeAccount, pdaExists, calculatedPoints, chain, clock, config, sync,
                 publicKey, intervalAccount, bgRead, invocations, lastEvent>>

\* inside await fetchStakeAccount(): await checkPDAExists(publicKey) returns
refreshExists(i) ==
  /\ HasReads
  /\ ops[i].pc = "checkPDAExists"
  /\ \E ok \in BOOLEAN :
       /\ pdaExists' = checkPDAExists(ok)
       /\ IF checkPDAExists(ok)
            THEN /\ SetOp(i, Await(ops[i], "getStakeAccount"))
                 /\ UNCHANGED <<stakeAccount, loading>>
            ELSE /\ stakeAccount' = NoAccount
                 /\ SetOp(i, Finish(Reread(ops[i], "position")))
                 /\ loading' = FALSE
  /\ UNCHANGED <<balance, calculatedPoints, chain, clock, config, sync,
                 publicKey, intervalAccount, bgRead, invocations, lastEvent>>

\* inside await fetchStakeAccount(): await getStakeAccount(publicKey) returns;
\* the handler's finally follows
refreshAccount(i) ==
  /\ HasReads
  /\ ops[i].pc = "getStakeAccount"
  /\ \E ok \in BOOLEAN : stakeAccount' = getStakeAccount(ok)
  /\ SetOp(i, Finish(Reread(ops[i], "position")))
  /\ loading' = FALSE
  /\ UNCHANGED <<balance, pdaExists, calculatedPoints, chain, clock, config, sync,
                 publicKey, intervalAccount, bgRead, invocations, lastEvent>>

\* fetchBalance from the effect, the 10 s interval or refresh()
fetchBalance ==
  /\ HasReads
  /\ publicKey # NoKey
  /\ \E ok \in BOOLEAN : balance' = fetchBalance_result(ok)
  /\ UNCHANGED <<loading, stakeAccount, pdaExists, calculatedPoints, chain, clock, config, sync,
                 ops, publicKey, intervalAccount, bgRead, invocations, lastEvent>>

\* fetchStakeAccount from the effect, the interval or refresh(), up to its second
\* await; calls overlap: one may reach its second await while others wait there
fetchStakeAccount_exists ==
  /\ HasReads
  /\ publicKey # NoKey
  /\ bgRead < MaxPending
  /\ \E ok \in BOOLEAN :
       /\ pdaExists' = checkPDAExists(ok)
       /\ IF checkPDAExists(ok)
            THEN bgRead' = bgRead + 1 /\ UNCHANGED stakeAccount
            ELSE stakeAccount' = NoAccount /\ UNCHANGED bgRead
  /\ UNCHANGED <<loading, balance, calculatedPoints, chain, clock, config, sync,
                 ops, publicKey, intervalAccount, invocations, lastEvent>>

\* ... and the getStakeAccount of one of them returns
fetchStakeAccount_account ==
  /\ HasReads
  /\ bgRead > 0
  /\ \E ok \in BOOLEAN : stakeAccount' = getStakeAccount(ok)
  /\ bgRead' = bgRead - 1
  /\ UNCHANGED <<loading, balance, pdaExists, calculatedPoints, chain, clock, config, sync,
                 ops, publicKey, intervalAccount, invocations, lastEvent>>

\* ---- the sync effect of both useStaking hooks

\* the wallet disconnects: the effect's cleanup clears the interval and the
\* effect's else branch resets balance, stakeAccount and pdaExists; reads and
\* handlers in flight go on
useStaking_disconnect ==
  /\ IsStaking
  /\ publicKey # NoKey
  /\ publicKey' = NoKey
  /\ timers' = {}
  /\ balance' = LamZero
  /\ stakeAccount' = NoAccount
  /\ pdaExists' = FALSE
  /\ UNCHANGED <<loading, calculatedPoints, chain, clock, config, pending, ops,
                 intervalAccount, bgRead, invocations, lastEvent>>

\* a wallet connects: the effect issues fetchBalance() and fetchStakeAccount() and
\* arms the 10 s interval
useStaking_connect ==
  /\ IsStaking
  /\ publicKey = NoKey
  /\ publicKey' = User
  /\ timers' = {"refresh"}
  /\ CanIssue({"balance", "position"})
  /\ pending' = Issue(pending, {"balance", "position"})
  /\ UNCHANGED <<hookState, chain, clock, config, ops, intervalAccount, bgRead,
                 invocations, lastEvent>>

\* the 10 s interval fires: fetchBalance(); fetchStakeAccount()
useStaking_interval ==
  /\ IsStaking
  /\ "refresh" \in timers
  /\ CanIssue({"balance", "position"})
  /\ pending' = Issue(pending, {"balance", "position"})
  /\ UNCHANGED <<hookState, chain, clock, config, timers, ops, publicKey, intervalAccount,
                 bgRead, invocations, lastEvent>>

\* a fetchBalance() issued by the effect or the interval returns
fetchBalance_returns ==
  /\ IsStaking
  /\ pending.balance > 0
  /\ \E ok \in BOOLEAN : balance' = fetchBalance_result(ok)
  /\ pending' = Returned(pending, "balance")
  /\ UNCHANGED <<loading, stakeAccount, pdaExists, calculatedPoints, chain, clock, config,
                 timers, ops, publicKey, intervalAccount, bgRead, invocations, lastEvent>>

\* a fetchStakeAccount() issued by the effect or the interval: checkPDAExists returns
fetchStakeAccount_existsReturns ==
  /\ IsStaking
  /\ pending.position > bgRead
  /\ \E ok \in BOOLEAN :
       /\ pdaExists' = checkPDAExists(ok)
       /\ IF checkPDAExists(ok)
            THEN bgRead' = bgRead + 1 /\ UNCHANGED <<stakeAccount, pending>>
            ELSE /\ stakeAccount' = NoAccount
                 /\ pending' = Returned(pending, "position")
                 /\ UNCHANGED bgRead
  /\ UNCHANGED <<loading, balance, calculatedPoints, chain, clock, config, timers,
                 ops, publicKey, intervalAccount, invocations, lastEvent>>

\* ... and its getStakeAccount returns
fetchStakeAccount_accountReturns ==
  /\ IsStaking
  /\ bgRead > 0
  /\ \E ok \in BOOLEAN : stakeAccount' = getStakeAccount(ok)
  /\ bgRead' = bgRead - 1
  /\ pending' = Returned(pending, "position")
  /\ UNCHANGED <<loading, balance, pdaExists, calculatedPoints, chain, clock, config,
                 timers, ops, publicKey, intervalAccount, invocations, lastEvent>>

\* ------------------------------------------------------------------------
\* shared environment steps
\* ------------------------------------------------------------------------

\* the promise of a finished handler resolves
Return(i) ==
  /\ ops[i].pc = "done"
  /\ SetOp(i, IdleOp)
  /\ UNCHANGED <<hookState, chain, clock, config, sync, publicKey, intervalAccount, bgRead,
                 invocations, lastEvent>>

Tick ==
  /\ ticks < MaxTicks
  /\ ticks' = ticks + 1
  /\ now' = now + TickSeconds
  /\ UNCHANGED <<hookState, chain, config, sync, publicKey, intervalAccount, bgRead, ops,
                 invocations, lastEvent>>

InitCommon ==
  /\ publicKey = User
  /\ loading = FALSE
  /\ balance = LamZero
  /\ stakeAccount = NoAccount
  /\ pdaExists = FALSE
  /\ calculatedPoints = 0
  /\ intervalAccount = NoAccount
  /\ bgRead = 0
  /\ ops = [i \in Slots |-> IdleOp]
  /\ invocations = 0
  /\ lastEvent = [n |-> 0, op |-> "none", amount |-> 0, outcome |-> "none"]
  /\ now = 0
  /\ ticks = 0

\* a connected wallet holding 1 SOL and the fee buffer, whose position is absent
\* or holds 1 SOL staked at time 0 with 200000 points
InitStakeProgram ==
  /\ hook = "useStakeProgram"
  /\ keypair = TRUE
  /\ signTransaction = TRUE
  /\ platformKey = TRUE
  /\ chainPos \in {NoAccount, Position(SolToLamports(1), 200000, 0)}
  /\ chainBal = Lam(1, feeBuffer)
  /\ budget = MaxInvocations
  /\ timers = {"points", "refresh"}
  /\ pending = NoPending
  /\ InitCommon

NextStakeProgram ==
  \/ \E i \in Slots : useStakeProgram_createPdaAccount(i)
  \/ \E i \in Slots, a \in Amounts : useStakeProgram_stake(i, a)
  \/ \E i \in Slots, a \in Amounts : useStakeProgram_unstake(i, a)
  \/ \E i \in Slots : useStakeProgram_claimPoints(i)
  \/ \E i \in Slots : useStakeProgram_getLatestBlockhash(i)
  \/ \E i \in Slots : useStakeProgram_build(i)
  \/ \E i \in Slots : useStakeProgram_send(i)
  \/ \E i \in Slots : useStakeProgram_confirmTransaction(i)
  \/ \E i \in Slots : useStakeProgram_refreshStakeAccount(i)
  \/ \E i \in Slots : useStakeProgram_refreshWalletBalance(i)
  \/ useStakeProgram_fetchStakeAccount
  \/ useStakeProgram_fetchWalletBalance
  \/ \E i \in Slots : Return(i)
  \/ Tick

SpecStakeProgram == InitStakeProgram /\ [][NextStakeProgram]_vars

\* a connected wallet holding 1 SOL with or without the fee buffer, whose position
\* is absent or holds 1 SOL staked at time 0 with 60000 points
InitStaking ==
  /\ hook = "useStaking"
  /\ keypair = FALSE
  /\ signTransaction = TRUE
  /\ platformKey = TRUE
  /\ chainPos \in {NoAccount, Position(SolToLamports(1), 60000, 0)}
  /\ chainBal \in {Lam(1, 0), Lam(2, feeBuffer)}
  /\ budget = MaxInvocations
  /\ timers = {"refresh"}
  /\ pending = NoPending
  /\ InitCommon

NextStaking ==
  \/ \E i \in Slots, a \in Amounts : useStaking_stake(i, a)
  \/ \E i \in Slots, a \in Amounts : useStaking_unstake(i, a)
  \/ \E i \in Slots : useStaking_claimPoints(i)
  \/ \E i \in Slots : useStaking_build(i)
  \/ \E i \in Slots : useStaking_getLatestBlockhash(i)
  \/ \E i \in Slots : useStaking_getLogs(i)
  \/ \E i \in Slots : useStaking_signTransaction(i)
  \/ \E i \in Slots : useStaking_sendRawTransaction(i)
  \/ \E i \in Slots : useStaking_confirmTransaction(i)
  \/ \E i \in Slots : useStaking_getBalance(i)
  \/ \E i \in Slots : refreshBalance(i)
  \/ \E i \in Slots : refreshExists(i)
  \/ \E i \in Slots : refreshAccount(i)
  \/ fetchBalance
  \/ fetchStakeAccount_exists
  \/ fetchStakeAccount_account
  \/ \E i \in Slots : Return(i)
  \/ Tick

SpecStaking == InitStaking /\ [][NextStaking]_vars

InitStakingTs ==
  /\ hook = "useStakingTs"
  /\ keypair = FALSE
  /\ signTransaction = TRUE
  /\ platformKey = TRUE
  /\ chainPos \in {NoAccount, Position(SolToLamports(1), 60000, 0)}
  /\ chainBal = Lam(2, feeBuffer)
  /\ budget = MaxInvocations
  /\ timers = {"refresh"}
  /\ pending = NoPending
  /\ InitCommon

NextStakingTs ==
  \/ \E i \in Slots, a \in Amounts : useStakingTs_stake(i, a)
  \/ \E i \in Slots, a \in Amounts : useStakingTs_unstake(i, a)
  \/ \E i \in Slots : useStakingTs_claimPoints(i)
  \/ \E i \in Slots : useStakingTs_build(i)
  \/ \E i \in Slots : useStakingTs_sendTransaction(i)
  \/ \E i \in Slots : useStakingTs_confirmTransaction(i)
  \/ \E i \in Slots : refreshBalance(i)
  \/ \E i \in Slots : refreshExists(i)
  \/ \E i \in Slots : refreshAccount(i)
  \/ fetchBalance
  \/ fetchStakeAccount_exists
  \/ fetchStakeAccount_account
  \/ \E i \in Slots : Return(i)
  \/ Tick

SpecStakingTs == InitStakingTs /\ [][NextStakingTs]_vars

\* the second useStaking of part_002: its effect arms no interval; the
\* background reads are those of the effect and of refresh()
InitStakingMock ==
  /\ hook = "useStakingMock"
  /\ keypair = FALSE
  /\ signTransaction \in BOOLEAN
  /\ platformKey = TRUE
  /\ chainPos \in {NoAccount, Position(SolToLamports(1), 0, 0),
                   Position(SolToLamports(1), 60000, 0)}
  /\ chainBal \in {Lam(1, 0), Lam(2, feeBuffer)}
  /\ budget = MaxInvocations
  /\ timers = {}
  /\ pending = NoPending
  /\ InitCommon

NextStakingMock ==
  \/ \E i \in Slots, a \in Amounts : useStakingMock_stake(i, a)
  \/ \E i \in Slots, a \in Amounts : useStakingMock_unstake(i, a)
  \/ \E i \in Slots : useStakingMock_claimPoints(i)
  \/ \E i \in Slots : refreshBalance(i)
  \/ \E i \in Slots : refreshExists(i)
  \/ \E i \in Slots : refreshAccount(i)
  \/ fetchBalance
  \/ fetchStakeAccount_exists
  \/ fetchStakeAccount_account
  \/ \E i \in Slots : Return(i)
  \/ Tick

SpecStakingMock == InitStakingMock /\ [][NextStakingMock]_vars

\* useStaking (hooks/useStaking.ts) over a wallet session: mounted with a wallet,
\* whose effect has issued its first reads; the wallet disconnects and connects
InitStakingTsSession ==
  /\ hook = "useStakingTs"
  /\ keypair = FALSE
  /\ signTransaction = TRUE
  /\ platformKey = TRUE
  /\ chainPos \in {NoAccount, Position(SolToLamports(1), 60000, 0)}
  /\ chainBal = Lam(2, feeBuffer)
  /\ budget = MaxSessionInvocations
  /\ timers = {"refresh"}
  /\ pending = Issue(NoPending, {"balance", "position"})
  /\ InitCommon

NextStakingTsSession ==
  \/ useStaking_disconnect
  \/ useStaking_connect
  \/ useStaking_interval
  \/ fetchBalance_returns
  \/ fetchStakeAccount_existsReturns
  \/ fetchStakeAccount_accountReturns
  \/ \E i \in Slots, a \in Amounts : useStakingTs_stake(i, a)
  \/ \E i \in Slots, a \in Amounts : useStakingTs_unstake(i, a)
  \/ \E i \in Slots : useStakingTs_claimPoints(i)
  \/ \E i \in Slots : useStakingTs_build(i)
  \/ \E i \in Slots : useStakingTs_sendTransaction(i)
  \/ \E i \in Slots : useStakingTs_confirmTransaction(i)
  \/ \E i \in Slots : refreshBalance(i)
  \/ \E i \in Slots : refreshExists(i)
  \/ \E i \in Slots : refreshAccount(i)
  \/ \E i \in Slots : Return(i)
  \/ Tick

SpecStakingTsSession == InitStakingTsSession /\ [][NextStakingTsSession]_vars

\* useStakeProgram over a wallet session
InitStakeProgramSession ==
  /\ hook = "useStakeProgram"
  /\ keypair = TRUE
  /\ signTransaction = TRUE
  /\ platformKey = TRUE
  /\ chainPos \in {NoAccount, Position(SolToLamports(1), 60000, 0)}
  /\ chainBal = Lam(1, feeBuffer)
  /\ budget = MaxSessionInvocations
  /\ timers = {"points", "refresh"}
  /\ pending = Issue(NoPending, {"position", "balance"})
  /\ InitCommon

NextStakeProgramSession ==
  \/ useStakeProgram_walletChange
  \/ useStakeProgram_refreshInterval
  \/ useStakeProgram_interval
  \/ useStakeProgram_fetchStakeAccount_returns
  \/ useStakeProgram_fetchWalletBalance_returns
  \/ \E i \in Slots : useStakeProgram_createPdaAccount(i)
  \/ \E i \in Slots, a \in Amounts : useStakeProgram_stake(i, a)
  \/ \E i \in Slots, a \in Amounts : useStakeProgram_unstake(i, a)
  \/ \E i \in Slots : useStakeProgram_claimPoints(i)
  \/ \E i \in Slots : useStakeProgram_getLatestBlockhash(i)
  \/ \E i \in Slots : useStakeProgram_build(i)
  \/ \E i \in Slots : useStakeProgram_send(i)
  \/ \E i \in Slots : useStakeProgram_confirmTransaction(i)
  \/ \E i \in Slots : useStakeProgram_refreshStakeAccount(i)
  \/ \E i \in Slots : useStakeProgram_refreshWalletBalance(i)
  \/ \E i \in Slots : Return(i)
  \/ Tick

SpecStakeProgramSession == InitStakeProgramSession /\ [][NextStakeProgramSession]_vars

\* claimPoints of useStakeProgram on its own, with and without the custodial
\* key: a wallet whose position holds 1 SOL staked at time 0 and enough points
\* for no claim at all or for a payout of 0 or 2 SOL
ClaimPoints == {49999, 60000, 200000}

InitClaim ==
  /\ hook = "useStakeProgram"
  /\ keypair \in BOOLEAN
  /\ signTransaction = TRUE
  /\ platformKey = TRUE
  /\ chainPos \in {Position(SolToLamports(1), p, 0) : p \in ClaimPoints}
  /\ chainBal = Lam(1, feeBuffer)
  /\ budget = MaxInvocations
  /\ timers = {"points", "refresh"}
  /\ pending = NoPending
  /\ InitCommon

NextClaim ==
  \/ \E i \in Slots : useStakeProgram_claimPoints(i)
  \/ \E i \in Slots : useStakeProgram_getLatestBlockhash(i)
  \/ \E i \in Slots : useStakeProgram_build(i)
  \/ \E i \in Slots : useStakeProgram_send(i)
  \/ \E i \in Slots : useStakeProgram_confirmTransaction(i)
  \/ \E i \in Slots : useStakeProgram_refreshStakeAccount(i)
  \/ \E i \in Slots : useStakeProgram_refreshWalletBalance(i)
  \/ useStakeProgram_fetchStakeAccount
  \/ \E i \in Slots : Return(i)
  \/ Tick

SpecClaim == InitClaim /\ [][NextClaim]_vars

\* Overlapping fetchStakeAccount calls of useStakeProgram, each in three steps:
\* the call is made (by the effect, the refresh interval or the caller), the
\* node answers getAccountInfo with the account as it is then, and the answer
\* reaches the continuation, which publishes it. Here pending holds the calls
\* in flight, invocations counts the calls made and lastEvent names the call
\* that published last.
MaxReads == 3

Request(n) == [n |-> n, answered |-> FALSE, data |-> NoAccount]

\* fetchStakeAccount() is called: setRefreshing(true), getAccountInfo is sent
Reads_fetchStakeAccount ==
  /\ hook = "useStakeProgram"
  /\ publicKey # NoKey
  /\ invocations < budget
  /\ invocations' = invocations + 1
  /\ pending' = pending \cup {Request(invocations + 1)}
  /\ UNCHANGED <<hookState, chain, clock, config, timers, ops, publicKey, intervalAccount,
                 bgRead, lastEvent>>

\* the node answers a getAccountInfo in flight, or the request fails
Reads_getAccountInfo ==
  /\ hook = "useStakeProgram"
  /\ \E r \in pending : \E ok \in BOOLEAN :
       /\ ~r.answered
       /\ pending' = (pending \ {r})
                       \cup {[r EXCEPT !.answered = TRUE,
                                       !.data = useStakeProgram_readAccount(ok)]}
  /\ UNCHANGED <<hookState, chain, clock, config, timers, ops, publicKey, intervalAccount,
                 bgRead, invocations, lastEvent>>

\* the continuation of fetchStakeAccount runs with the answer: it publishes the
\* decoded position and its claimable points at the current time, or clears both
Reads_publish ==
  /\ hook = "useStakeProgram"
  /\ \E r \in pending :
       /\ r.answered
       /\ stakeAccount' = r.data
       /\ calculatedPoints' = (IF r.data # NoAccount
                                THEN totalClaimablePoints(r.data, now) ELSE 0)
       /\ lastEvent' = [n |-> r.n, op |-> "fetchStakeAccount", amount |-> 0,
                        outcome |-> "published"]
       /\ pending' = pending \ {r}
  /\ UNCHANGED <<loading, balance, pdaExists, chain, clock, config, timers, ops, publicKey,
                 intervalAccount, bgRead, invocations>>

\* a stake of 1 SOL by the wallet is confirmed on the ledger
Reads_stakeConfirmed ==
  /\ hook = "useStakeProgram"
  /\ LET st == ApplyTx([ixs |-> <<Ix("stake", SolToLamports(1), NoKey)>>])
     IN  /\ st.ok
         /\ chainPos' = st.pos
         /\ chainBal' = st.bal
  /\ UNCHANGED <<hookState, clock, config, sync, ops, publicKey, intervalAccount, bgRead,
                 invocations, lastEvent>>

InitReads ==
  /\ hook = "useStakeProgram"
  /\ keypair = TRUE
  /\ signTransaction = TRUE
  /\ platformKey = TRUE
  /\ chainPos = Position(SolToLamports(1), 0, 0)
  /\ chainBal = Lam(2, feeBuffer)
  /\ budget = MaxReads
  /\ timers = {"points", "refresh"}
  /\ pending = {}
  /\ InitCommon

NextReads ==
  \/ Reads_fetchStakeAccount
  \/ Reads_getAccountInfo
  \/ Reads_publish
  \/ Reads_stakeConfirmed
  \/ Tick

SpecReads == InitReads /\ [][NextReads]_vars

\* The handlers of useStakeProgram and of useStaking (part_002) under the
\* assumption that every awaited call returns or fails: a handler that awaits a
\* call is eventually resumed
HandlerStep(i) ==
  \/ useStakeProgram_getLatestBlockhash(i)
  \/ useStakeProgram_build(i)
  \/ useStakeProgram_send(i)
  \/ useStakeProgram_confirmTransaction(i)
  \/ useStakeProgram_refreshStakeAccount(i)
  \/ useStakeProgram_refreshWalletBalance(i)
  \/ useStaking_build(i)
  \/ useStaking_getLatestBlockhash(i)
  \/ useStaking_getLogs(i)
  \/ useStaking_signTransaction(i)
  \/ useStaking_sendRawTransaction(i)
  \/ useStaking_confirmTransaction(i)
  \/ useStaking_getBalance(i)
  \/ refreshBalance(i)
  \/ refreshExists(i)
  \/ refreshAccount(i)

InitTermination ==
  /\ \/ /\ hook = "useStakeProgram" /\ keypair = TRUE /\ timers = {"points", "refresh"}
        /\ signTransaction = TRUE /\ platformKey = TRUE
        /\ chainPos \in {NoAccount} \cup {Position(SolToLamports(1), p, 0) : p \in ClaimPoints}
     \/ /\ hook = "useStaking" /\ keypair = FALSE /\ timers = {"refresh"}
        /\ signTransaction \in BOOLEAN /\ platformKey \in BOOLEAN
        /\ chainPos \in {NoAccount, Position(TwoTo53, 0, MaxTicks * TickSeconds)}
                       \cup {Position(SolToLamports(1), p, 0) : p \in ClaimPoints}
  /\ chainBal \in {Lam(1, 0), Lam(2, feeBuffer)}
  /\ budget = MaxSessionInvocations
  /\ pending = NoPending
  /\ InitCommon

NextTermination ==
  \/ NextStakeProgram
  \/ NextStaking

SpecTermination ==
  /\ InitTermination
  /\ [][NextTermination]_vars
  /\ \A i \in Slots : WF_vars(HandlerStep(i))

\* ------------------------------------------------------------------------
\* The accrual computations on their own
\* ------------------------------------------------------------------------
SECONDS_PER_DAY == 86400
MaxLibProductSol == 180000

\* calculatePoints of useStakeProgram (part_001): no test of the sign of
\* timeElapsed; a zero stakedAmount or a zero lastUpdatedTime returns totalPoints
useStakeProgram_calculatePoints(stakedAmount, lastUpdatedTime, totalPoints, t) ==
  IF stakedAmount = LamZero \/ lastUpdatedTime = 0
    THEN totalPoints
    ELSE LET timeElapsed == t - lastUpdatedTime
             pointsEarned == PointsEarned(stakedAmount, timeElapsed)
         IN  totalPoints + pointsEarned

\* BN.div of a non-negative product by 86400 (exact integers, truncating)
DivBySecondsPerDay(p) ==
  LET carry == p.sol * (LAMPORTS_PER_SOL % SECONDS_PER_DAY) + p.rem
  IN  p.sol * (LAMPORTS_PER_SOL \div SECONDS_PER_DAY) + (carry \div SECONDS_PER_DAY)

\* calculatePoints of the utility library (index.css): the points earned,
\* stakedAmount.mul(timeElapsed).div(new BN(86400)), BN.div truncating toward zero
lib_calculatePoints(stakedAmount, lastUpdatedTime, t) ==
  LET timeElapsed == t - lastUpdatedTime
      e == IF timeElapsed < 0 THEN -timeElapsed ELSE timeElapsed
      q == DivBySecondsPerDay(Product(stakedAmount, e))
  IN  IF timeElapsed < 0 THEN -q ELSE q

AccrualStakes == {LamZero, Lam(0, 5), Lam(10, 0), Lam(100, 100001)}
AccrualPoints == {0, 7}
AccrualTimes == {0, 100}
AccrualNows == {50, 100, 86400, 99999, 100099}

Applied(name) == [n |-> 0, op |-> name, amount |-> 0, outcome |-> "applied"]

\* fetchStakeAccount computing totalClaimablePoints from the decoded account
Apply_fetchStakeAccount ==
  /\ hook = "accrual"
  /\ calculatedPoints' = totalClaimablePoints(chainPos, now)
  /\ stakeAccount' = chainPos
  /\ lastEvent' = Applied("fetchStakeAccount")
  /\ UNCHANGED <<loading, balance, pdaExists, chain, clock, config, sync, publicKey,
                 intervalAccount, bgRead, ops, invocations>>

\* the points interval recomputing from the captured account
Apply_interval ==
  /\ hook = "accrual"
  /\ calculatedPoints' = useStakeProgram_intervalPoints(intervalAccount, now)
  /\ lastEvent' = Applied("interval")
  /\ UNCHANGED <<loading, balance, stakeAccount, pdaExists, chain, clock, config, sync,
                 publicKey, intervalAccount, bgRead, ops, invocations>>

Apply_calculatePoints ==
  /\ hook = "accrual"
  /\ calculatedPoints' = useStakeProgram_calculatePoints(chainPos.stakedAmount,
                             chainPos.lastUpdatedTime, chainPos.totalPoints, now)
  /\ lastEvent' = Applied("calculatePoints")
  /\ UNCHANGED <<loading, balance, stakeAccount, pdaExists, chain, clock, config, sync,
                 publicKey, intervalAccount, bgRead, ops, invocations>>

\* the result of the library function is kept while it fits 32 bits
Apply_lib_calculatePoints ==
  /\ hook = "accrual"
  /\ LET d == now - chainPos.lastUpdatedTime
     IN  Product(chainPos.stakedAmount, IF d < 0 THEN -d ELSE d).sol < MaxLibProductSol
  /\ calculatedPoints' = lib_calculatePoints(chainPos.stakedAmount,
                                             chainPos.lastUpdatedTime, now)
  /\ lastEvent' = Applied("lib.calculatePoints")
  /\ UNCHANGED <<loading, balance, stakeAccount, pdaExists, chain, clock, config, sync,
                 publicKey, intervalAccount, bgRead, ops, invocations>>

\* any position and any clock reading, the interval holding the same position
InitAccrual ==
  /\ hook = "accrual"
  /\ keypair = FALSE
  /\ signTransaction = TRUE
  /\ platformKey = TRUE
  /\ chainPos \in {Position(s, p, t) : s \in AccrualStakes, p \in AccrualPoints,
                                        t \in AccrualTimes}
  /\ chainBal = LamZero
  /\ budget = 0
  /\ timers = {"points"}
  /\ pending = NoPending
  /\ publicKey = User
  /\ loading = FALSE
  /\ balance = LamZero
  /\ stakeAccount = NoAccount
  /\ pdaExists = FALSE
  /\ calculatedPoints = 0
  /\ intervalAccount = chainPos
  /\ bgRead = 0
  /\ ops = [i \in Slots |-> IdleOp]
  /\ invocations = 0
  /\ lastEvent = [n |-> 0, op |-> "none", amount |-> 0, outcome |-> "none"]
  /\ now \in AccrualNows
  /\ ticks = 0

NextAccrual ==
  \/ Apply_fetchStakeAccount
  \/ Apply_interval
  \/ Apply_calculatePoints
  \/ Apply_lib_calculatePoints

SpecAccrual == InitAccrual /\ [][NextAccrual]_vars

\* ------------------------------------------------------------------------
\* Decoding the account data.  A u64 is kept as four 16-bit limbs, least
\* significant first; a public key as its 32 bytes.
\* ------------------------------------------------------------------------
StakeAccountDiscriminator == <<80, 158, 67, 124, 50, 189, 192, 255>>

\* variant: the length test only covers the discriminator and the owner
MinRecordLength_ownerOnly == 8 + 32
\* data.length >= 8 + 32 + 8 + 8 + 8 + 1
MinRecordLength == 8 + 32 + 8 + 8 + 8 + 1

\* data.slice(from, to), offsets counted from 0
Slice(data, from, to) ==
  SubSeq(data, from + 1, IF to < Len(data) THEN to ELSE Len(data))

\* new BN(bytes, 'le')
BNle(bytes) ==
  [i \in 1..4 |->
     (IF 2 * i - 1 <= Len(bytes) THEN bytes[2 * i - 1] ELSE 0)
       + 256 * (IF 2 * i <= Len(bytes) THEN bytes[2 * i] ELSE 0)]

\* BN.toNumber() throws above 53 bits
toNumberThrows(bn) == bn[4] >= 32

\* the remote program's layout: discriminator, owner, three u64 little-endian, bump
U64Bytes(v) ==
  <<v[1] % 256, v[1] \div 256, v[2] % 256, v[2] \div 256,
    v[3] % 256, v[3] \div 256, v[4] % 256, v[4] \div 256>>
Encode(discriminator, pos) ==
  discriminator \o pos.owner \o U64Bytes(pos.stakedAmount) \o U64Bytes(pos.totalPoints)
    \o U64Bytes(pos.lastUpdatedTime) \o <<pos.bump>>

\* the try block of fetchStakeAccount of useStakeProgram, from the account info
\* to the value it publishes ("caught": the catch block ran)
useStakeProgram_decode(accountInfo) ==
  IF accountInfo = NoAccount \/ Len(accountInfo.data) = 0
    THEN [outcome |-> "absent", account |-> NoAccount]
  ELSE IF Len(accountInfo.data) >= MinRecordLength
    THEN LET data == accountInfo.data
             ownerBytes == Slice(data, 8, 40)
             stakedAmount == BNle(Slice(data, 40, 48))
             totalPoints == BNle(Slice(data, 48, 56))
             lastUpdatedTime == BNle(Slice(data, 56, 64))
             bump == IF 64 < Len(data) THEN data[65] ELSE "undefined"
         IN  IF \/ Len(ownerBytes) # 32
                \/ toNumberThrows(stakedAmount)
                \/ toNumberThrows(totalPoints)
                \/ toNumberThrows(lastUpdatedTime)
               THEN [outcome |-> "caught", account |-> NoAccount]
               ELSE [outcome |-> "decoded",
                     account |-> [owner |-> ownerBytes, stakedAmount |-> stakedAmount,
                                  totalPoints |-> totalPoints,
                                  lastUpdatedTime |-> lastUpdatedTime, bump |-> bump]]
    ELSE [outcome |-> "absent", account |-> NoAccount]

\* getStakeAccount of the utility library: the fields stay BN
lib_getStakeAccount(accountInfo) ==
  IF accountInfo = NoAccount THEN [outcome |-> "absent", account |-> NoAccount]
  ELSE IF Len(accountInfo.data) < 8 THEN [outcome |-> "absent", account |-> NoAccount]
  ELSE LET accountData == Slice(accountInfo.data, 8, Len(accountInfo.data))
       IN  IF Len(accountData) < 57 THEN [outcome |-> "absent", account |-> NoAccount]
           ELSE [outcome |-> "decoded",
                 account |-> [owner |-> Slice(accountData, 0, 32),
                              stakedAmount |-> BNle(Slice(accountData, 32, 40)),
                              totalPoints |-> BNle(Slice(accountData, 40, 48)),
                              lastUpdatedTime |-> BNle(Slice(accountData, 48, 56)),
                              bump |-> accountData[57]]]

U64Zero == <<0, 0, 0, 0>>
U64Values == {U64Zero, <<1, 0, 0, 0>>, <<58368, 21515, 2, 0>>,
              <<65535, 65535, 65535, 31>>, <<0, 0, 0, 32>>,
              <<65535, 65535, 65535, 65535>>}
Owners == {[i \in 1..32 |-> i], [i \in 1..32 |-> 255 - i]}
Bumps == {0, 255}
Discriminators == {StakeAccountDiscriminator, <<0, 0, 0, 0, 0, 0, 0, 0>>}
DataLengths == {0, 7, 8, 40, 64, 65, 66}

\* the account the read finds: none, or the encoded position cut or padded to a length
Accounts ==
  {NoAccount} \cup
  {[position |-> pos, discriminator |-> d,
    data |-> IF n <= Len(Encode(d, pos))
               THEN SubSeq(Encode(d, pos), 1, n)
               ELSE Encode(d, pos) \o [i \in 1..(n - Len(Encode(d, pos))) |-> 0]] :
     pos \in [owner : Owners, stakedAmount : U64Values, totalPoints : U64Values,
              lastUpdatedTime : U64Values, bump : Bumps],
     d \in Discriminators, n \in DataLengths}

\* fetchStakeAccount with the clock at 0: no time has elapsed, pointsEarned is 0
\* and the claimable points are totalPoints
Apply_decode ==
  /\ hook = "decode"
  /\ LET r == useStakeProgram_decode(chainPos)
     IN  /\ stakeAccount' = r.account
         /\ calculatedPoints' = IF r.outcome = "decoded" THEN r.account.totalPoints
                                                         ELSE U64Zero
         /\ lastEvent' = [n |-> 0, op |-> "fetchStakeAccount", amount |-> 0,
                          outcome |-> r.outcome]
  /\ UNCHANGED <<loading, balance, pdaExists, chain, clock, config, sync, publicKey,
                 intervalAccount, bgRead, ops, invocations>>

Apply_lib_getStakeAccount ==
  /\ hook = "decode"
  /\ LET r == lib_getStakeAccount(chainPos)
     IN  /\ stakeAccount' = r.account
         /\ lastEvent' = [n |-> 0, op |-> "lib.getStakeAccount", amount |-> 0,
                          outcome |-> r.outcome]
  /\ UNCHANGED <<loading, balance, pdaExists, calculatedPoints, chain, clock, config, sync,
                 publicKey, intervalAccount, bgRead, ops, invocations>>

InitDecode ==
  /\ hook = "decode"
  /\ keypair = FALSE
  /\ signTransaction = TRUE
  /\ platformKey = TRUE
  /\ chainPos \in Accounts
  /\ chainBal = LamZero
  /\ budget = 0
  /\ timers = {}
  /\ pending = NoPending
  /\ publicKey = User
  /\ loading = FALSE
  /\ balance = LamZero
  /\ stakeAccount = NoAccount
  /\ pdaExists = FALSE
  /\ calculatedPoints = U64Zero
  /\ intervalAccount = NoAccount
  /\ bgRead = 0
  /\ ops = [i \in Slots |-> IdleOp]
  /\ invocations = 0
  /\ lastEvent = [n |-> 0, op |-> "none", amount |-> 0, outcome |-> "none"]
  /\ now = 0
  /\ ticks = 0

NextDecode ==
  \/ Apply_decode
  \/ Apply_lib_getStakeAccount

SpecDecode == InitDecode /\ [][NextDecode]_vars

\* ------------------------------------------------------------------------
\* The catch blocks of the handlers on their own: from the operation and the
\* thrown value to the toast, or to a TypeError that leaves the handler
\* ------------------------------------------------------------------------
\* the catch block has not run yet (awaits "none"), or is held at await
\* error.getLogs()
Thrown(op, error, awaits) ==
  [n |-> 0, op |-> op, amount |-> 0,
   outcome |-> [thrown |-> error, applied |-> FALSE, escaped |-> FALSE,
                toast |-> <<>>, awaits |-> awaits]]
\* the catch and finally blocks have run
Caught(op, error, result) ==
  [n |-> 0, op |-> op, amount |-> 0,
   outcome |-> [thrown |-> error, applied |-> TRUE, escaped |-> result.escaped,
                toast |-> result.toast, awaits |-> "none"]]

Apply_useStakingTs_catch ==
  /\ hook = "useStakingTs"
  /\ lastEvent' = Caught(lastEvent.op, lastEvent.outcome.thrown,
                         useStakingTs_catchToast(lastEvent.op, lastEvent.outcome.thrown))
  /\ loading' = FALSE
  /\ UNCHANGED <<balance, stakeAccount, pdaExists, calculatedPoints, chain, clock, config,
                 sync, publicKey, intervalAccount, bgRead, ops, invocations>>

\* typeof error.getLogs === "function" in the catch of stake, unstake and
\* claimPoints of useStaking (createPdaAccount has no such test)
useStaking_hasGetLogs(op, error) ==
  op # "createPdaAccount" /\ error.shape = "Error" /\ error.getLogs # "none"

\* the catch block of useStaking is entered: it runs through to its toast and the
\* finally, or stops at await error.getLogs() with loading still set
Apply_useStaking_catch ==
  /\ hook = "useStaking"
  /\ ~lastEvent.outcome.applied
  /\ lastEvent.outcome.awaits = "none"
  /\ IF useStaking_hasGetLogs(lastEvent.op, lastEvent.outcome.thrown)
       THEN /\ lastEvent' = Thrown(lastEvent.op, lastEvent.outcome.thrown, "error.getLogs")
            /\ UNCHANGED loading
       ELSE /\ lastEvent' = Caught(lastEvent.op, lastEvent.outcome.thrown,
                                   useStaking_catchToast(lastEvent.op,
                                                         lastEvent.outcome.thrown))
            /\ loading' = FALSE
  /\ UNCHANGED <<balance, stakeAccount, pdaExists, calculatedPoints, chain, clock, config,
                 sync, publicKey, intervalAccount, bgRead, ops, invocations>>

\* await error.getLogs() returns: the toast and the finally, or, when it
\* rejected, the finally alone
Apply_useStaking_getLogs ==
  /\ hook = "useStaking"
  /\ lastEvent.outcome.awaits = "error.getLogs"
  /\ lastEvent' = Caught(lastEvent.op, lastEvent.outcome.thrown,
                         useStaking_catchToast(lastEvent.op, lastEvent.outcome.thrown))
  /\ loading' = FALSE
  /\ UNCHANGED <<balance, stakeAccount, pdaExists, calculatedPoints, chain, clock, config,
                 sync, publicKey, intervalAccount, bgRead, ops, invocations>>

Apply_useStakeProgram_catch ==
  /\ hook = "useStakeProgram"
  /\ lastEvent' = Caught(lastEvent.op, lastEvent.outcome.thrown,
                         useStakeProgram_catchToast(lastEvent.op, lastEvent.outcome.thrown))
  /\ loading' = FALSE
  /\ UNCHANGED <<balance, stakeAccount, pdaExists, calculatedPoints, chain, clock, config,
                 sync, publicKey, intervalAccount, bgRead, ops, invocations>>

\* a handler whose awaited remote call has just rejected
InitCatch ==
  /\ hook \in {"useStakeProgram", "useStaking", "useStakingTs"}
  /\ keypair = (hook = "useStakeProgram")
  /\ signTransaction = TRUE
  /\ platformKey = TRUE
  /\ chainPos = NoAccount
  /\ chainBal = LamZero
  /\ budget = 0
  /\ timers = {}
  /\ pending = NoPending
  /\ publicKey = User
  /\ loading = TRUE
  /\ balance = LamZero
  /\ stakeAccount = NoAccount
  /\ pdaExists = FALSE
  /\ calculatedPoints = 0
  /\ intervalAccount = NoAccount
  /\ bgRead = 0
  /\ ops = [i \in Slots |-> IdleOp]
  /\ invocations = 0
  /\ \E op \in CatchOps, error \in ThrownValues : lastEvent = Thrown(op, error, "none")
  /\ now = 0
  /\ ticks = 0

NextCatch ==
  \/ Apply_useStakingTs_catch
  \/ Apply_useStaking_catch
  \/ Apply_useStaking_getLogs
  \/ Apply_useStakeProgram_catch

SpecCatch == InitCatch /\ [][NextCatch]_vars

\* the hooks side by side, stake and unstake only, with amounts around zero
AmountsAroundZero == {-1, 0, 1}

InitHooks ==
  /\ hook \in {"useStakeProgram", "useStaking", "useStakingTs", "useStakingMock"}
  /\ keypair = (hook = "useStakeProgram")
  /\ signTransaction = TRUE
  /\ platformKey = TRUE
  /\ chainPos \in {NoAccount, Position(SolToLamports(1), 60000, 0)}
  /\ chainBal = Lam(2, feeBuffer)
  /\ budget = MaxInvocations
  /\ timers = (CASE hook = "useStakeProgram" -> {"points", "refresh"}
                 [] hook = "useStakingMock" -> {}
                 [] OTHER -> {"refresh"})
  /\ pending = NoPending
  /\ InitCommon

NextHooks ==
  \/ \E i \in Slots, a \in AmountsAroundZero : useStakeProgram_stake(i, a)
  \/ \E i \in Slots, a \in AmountsAroundZero : useStakeProgram_unstake(i, a)
  \/ \E i \in Slots : useStakeProgram_getLatestBlockhash(i)
  \/ \E i \in Slots : useStakeProgram_build(i)
  \/ \E i \in Slots : useStakeProgram_send(i)
  \/ \E i \in Slots : useStakeProgram_confirmTransaction(i)
  \/ \E i \in Slots : useStakeProgram_refreshStakeAccount(i)
  \/ \E i \in Slots : useStakeProgram_refreshWalletBalance(i)
  \/ useStakeProgram_fetchStakeAccount
  \/ useStakeProgram_fetchWalletBalance
  \/ \E i \in Slots, a \in AmountsAroundZero : useStaking_stake(i, a)
  \/ \E i \in Slots, a \in AmountsAroundZero : useStaking_unstake(i, a)
  \/ \E i \in Slots : useStaking_build(i)
  \/ \E i \in Slots : useStaking_getLatestBlockhash(i)
  \/ \E i \in Slots : useStaking_getLogs(i)
  \/ \E i \in Slots : useStaking_signTransaction(i)
  \/ \E i \in Slots : useStaking_sendRawTransaction(i)
  \/ \E i \in Slots : useStaking_confirmTransaction(i)
  \/ \E i \in Slots : useStaking_getBalance(i)
  \/ \E i \in Slots, a \in AmountsAroundZero : useStakingTs_stake(i, a)
  \/ \E i \in Slots, a \in AmountsAroundZero : useStakingTs_unstake(i, a)
  \/ \E i \in Slots : useStakingTs_build(i)
  \/ \E i \in Slots : useStakingTs_sendTransaction(i)
  \/ \E i \in Slots : useStakingTs_confirmTransaction(i)
  \/ \E i \in Slots, a \in AmountsAroundZero : useStakingMock_stake(i, a)
  \/ \E i \in Slots, a \in AmountsAroundZero : useStakingMock_unstake(i, a)
  \/ \E i \in Slots : refreshBalance(i)
  \/ \E i \in Slots : refreshExists(i)
  \/ \E i \in Slots : refreshAccount(i)
  \/ fetchBalance
  \/ fetchStakeAccount_exists
  \/ fetchStakeAccount_account
  \/ \E i \in Slots : Return(i)

SpecHooks == InitHooks /\ [][NextHooks]_vars

\* ------------------------------------------------------------------------
\* properties
\* ------------------------------------------------------------------------
TxNames(o) == {o.txs[k].name : k \in 1..Len(o.txs)}
ConfirmedNames(o) == {o.confirmed[k] : k \in 1..Len(o.confirmed)}
LastNote(o) == o.notes[Len(o.notes)]
Invoked == lastEvent'.n # lastEvent.n

\* C1: at most one stake / unstake / claimPoints handler is in flight at any time
\* (a second invocation is turned away with "Please wait" and starts nothing).
C1_SingleInFlight == Cardinality({i \in Slots : Running(i)}) <= 1

\* C2: a claim whose whole-unit payout floor(points / 100000) is zero never
\* submits the on-chain claim transaction.
C2_ZeroPayoutBeforeClaim ==
  \A i \in Slots :
    (ops[i].op = "claimPoints" /\ ops[i].points \div 100000 = 0)
      => (ops[i].txs = <<>> /\ ops[i].tx = NoTx)

\* the notifications with which a failed claim transaction, a NETWORK failure or
\* a stale token ends claimPoints
ClaimFailureNotes ==
  {<<"Error", useStakeProgram_errorMsg("claimPoints", e)>> : e \in ErrKinds \cup {"ProgramError"}}

\* C3: a claimPoints whose claim transaction was confirmed and whose payout leg
\* failed ends with the error PAYOUT_AFTER_CLAIM_FAILED, which is none of the
\* notifications of a failed claim transaction, NETWORK or stale token.
C3_PayoutAfterClaimFailed ==
  \A i \in Slots :
    LET o == ops[i]
    IN  (o.op = "claimPoints" /\ o.pc = "done" /\ o.leg = "payout"
         /\ "claimPoints" \in ConfirmedNames(o) /\ "payout" \notin ConfirmedNames(o))
          => (/\ o.notes # <<>>
              /\ LastNote(o) = <<"Error", "PAYOUT_AFTER_CLAIM_FAILED">>
              /\ LastNote(o) \notin ClaimFailureNotes)

\* C4: a claimPoints invoked (wallet connected, custodial key configured) with
\* fewer than 50000 claimable points returns with the minimum-claim error and
\* leaves loading, every handler and the ledger untouched (no blockhash fetch,
\* no transaction); with 50000 or more it sets loading and awaits the blockhash
\* of the claim transaction.
C4_MinimumClaimGate ==
  [][(Invoked /\ lastEvent'.op = "claimPoints" /\ publicKey # NoKey /\ keypair)
       => IF calculatedPoints < 50000
            THEN /\ lastEvent'.outcome = "You need at least 50000 points to claim."
                 /\ UNCHANGED <<loading, ops, chainPos, chainBal>>
            ELSE /\ lastEvent'.outcome = "started"
                 /\ loading'
                 /\ \E i \in Slots :
                      /\ ops[i] = IdleOp
                      /\ ops'[i].op = "claimPoints"
                      /\ ops'[i].pc = "getLatestBlockhash"
                      /\ ops'[i].points = calculatedPoints]_vars

C4_Witness ==
  /\ lastEvent.op = "claimPoints"
  /\ lastEvent.amount = 49999
  /\ lastEvent.outcome = "You need at least 50000 points to claim."

\* C5: in every claimPoints the payout transfer is built and submitted only after
\* the claim transaction was submitted and its confirmation returned; while the
\* claim transaction is not confirmed there is no payout leg.
C5_PayoutAfterConfirmedClaim ==
  \A i \in Slots :
    LET o == ops[i]
    IN  (o.op = "claimPoints"
         /\ (o.leg = "payout" \/ o.tx.name = "payout" \/ "payout" \in TxNames(o)))
          => /\ Len(o.txs) >= 1 /\ o.txs[1].name = "claimPoints"
             /\ Len(o.confirmed) >= 1 /\ o.confirmed[1] = "claimPoints"
             /\ \A k \in 1..Len(o.txs) : o.txs[k].name = "payout" => k = 2

C5_Witness ==
  \E i \in Slots :
    /\ ops[i].op = "claimPoints"
    /\ Len(ops[i].txs) = 2
    /\ ops[i].txs[2].name = "payout"
    /\ ops[i].confirmed = <<"claimPoints">>

\* C6: a claimPoints whose claim instruction took p points from the ledger, with
\* floor(p / 100000) >= 1, and which has ended has submitted exactly one payout
\* transfer, from the custodial account to the wallet that invoked the claim,
\* of floor(p / 100000) whole SOL, i.e. floor(p / 100000) * 10^9 lamports.
C6_ExactlyOnePayout ==
  \A i \in Slots :
    LET o == ops[i]
        payouts == {k \in 1..Len(o.txs) : o.txs[k].name = "payout"}
    IN  (/\ o.op = "claimPoints"
         /\ o.pc = "done"
         /\ "claimPoints" \in ConfirmedNames(o)
         /\ o.claimed \div 100000 >= 1)
          => /\ Cardinality(payouts) = 1
             /\ \A k \in payouts :
                  /\ o.txs[k].ixs =
                       <<[name |-> "transfer",
                          lamports |-> [sol |-> o.claimed \div 100000, rem |-> 0],
                          to |-> User]>>
                  /\ o.txs[k].signer = Custodial

\* C7: the payout is a transaction of its own (the transfer alone) whose fee
\* payer and only signer is the custodial key and which goes out through
\* sendRawTransaction, never through the wallet; the claim transaction holds the
\* claim instruction alone, is paid and signed by the user's wallet and is never
\* signed by the custodial key.
C7_Signers ==
  \A i \in Slots :
    LET o == ops[i]
        all == {o.txs[k] : k \in 1..Len(o.txs)} \cup {o.tx}
    IN  o.op = "claimPoints"
          => \A t \in all :
               /\ t.name = "payout"
                    => /\ t.signer = Custodial /\ t.feePayer = Custodial
                       /\ t.via = "sendRawTransaction"
                       /\ Len(t.ixs) = 1 /\ t.ixs[1].name = "transfer"
               /\ t.name = "claimPoints"
                    => /\ t.signer = User /\ t.feePayer = User
                       /\ t.via = "wallet.sendTransaction"
                       /\ Len(t.ixs) = 1 /\ t.ixs[1].name = "claimPoints"

C7_Witness ==
  \E i \in Slots :
    /\ ops[i].op = "claimPoints"
    /\ ops[i].pc = "confirmTransaction"
    /\ TxNames(ops[i]) = {"claimPoints", "payout"}

\* C8: a stake invoked while the position is not known to exist builds or
\* submits its stake transaction only after its initialize transaction was
\* submitted and confirmed.
C8_InitializeBeforeStake ==
  \A i \in Slots :
    LET o == ops[i]
    IN  (o.op = "stake" /\ ~o.pre.known
         /\ (o.tx.name = "stake" \/ "stake" \in TxNames(o)))
          => (Len(o.confirmed) >= 1 /\ o.confirmed[1] = "createPdaAccount")

\* C9: no unstake handler is ever started (loading set, remote calls issued) for
\* an amount above the staked amount of the published snapshot.
C9_UnstakeWithinStaked ==
  \A i \in Slots : ops[i].op = "unstake" => ~ops[i].pre.exceeds

\* C10: a stake invoked while the wallet does not hold amount + feeBuffer issues
\* no remote call and submits no transaction.
C10_StakeNeedsFunds ==
  \A i \in Slots :
    (ops[i].op = "stake" /\ ops[i].pre.short)
      => (ops[i].rpc = 0 /\ ops[i].txs = <<>>)

\* C10, its transaction part alone: such a stake never submits a transaction.
C10_NoTransactionWithoutFunds ==
  \A i \in Slots :
    (ops[i].op = "stake" /\ ops[i].pre.short) => ops[i].txs = <<>>

\* C11: in every hook, a stake or unstake invoked with amount <= 0 returns at
\* once: it starts no handler (no remote call, no transaction built), leaves
\* loading as it was, issues no read and changes nothing on the ledger.
C11_NonPositiveAmount ==
  [][(Invoked /\ lastEvent'.op \in {"stake", "unstake"} /\ lastEvent'.amount <= 0)
       => /\ lastEvent'.outcome # "started"
          /\ UNCHANGED <<loading, ops, chainPos, chainBal, pending>>]_vars

C11_Witness ==
  /\ hook = "useStaking"
  /\ lastEvent.op = "stake"
  /\ lastEvent.amount = -1
  /\ lastEvent.outcome = "Amount must be greater than 0"

\* the transactions of the handler in slot i, submitted or built, by position
TxsOf(i) ==
  {[slot |-> i, k |-> k, tx |-> ops[i].txs[k]] : k \in 1..Len(ops[i].txs)}
    \cup (IF ops[i].tx = NoTx THEN {} ELSE {[slot |-> i, k |-> 0, tx |-> ops[i].tx]})

\* C12: every transaction a handler builds or submits carries a blockhash that
\* this very invocation fetched, and no blockhash is carried by two transactions
\* (of the same invocation, e.g. claim and payout, or of two invocations).
C12_FreshBlockhash ==
  \A i \in Slots : \A a \in TxsOf(i) :
    /\ a.tx.recentBlockhash.n = ops[i].n
    /\ a.tx.recentBlockhash.k \in 1..ops[i].blockhash.k
    /\ \A j \in Slots : \A b \in TxsOf(j) :
         (a.slot # b.slot \/ a.k # b.k) => a.tx.recentBlockhash # b.tx.recentBlockhash

C12_Witness ==
  /\ \E i \in Slots :
       /\ ops[i].op = "claimPoints"
       /\ Len(ops[i].txs) = 2
       /\ ops[i].txs[1].recentBlockhash # ops[i].txs[2].recentBlockhash
  /\ \E i, j \in Slots : i # j /\ ops[i].txs # <<>> /\ ops[j].txs # <<>>

\* C13: a handler that has had a transaction confirmed does not finish before it
\* has re-read both the position and the wallet balance.
C13_RefreshAfterConfirm ==
  \A i \in Slots :
    (ops[i].pc = "done" /\ ops[i].confirmed # <<>>)
      => {"position", "balance"} \subseteq ops[i].reads

\* C14: the published position, claimable points and balance change only to what
\* a successful read of the ledger returns; a failed read or a failed operation
\* leaves them as they were.
C14_OnlySuccessfulReadsPublish ==
  [][/\ stakeAccount' # stakeAccount => stakeAccount' = chainPos'
     /\ calculatedPoints' # calculatedPoints
          => calculatedPoints' = (IF chainPos' = NoAccount THEN 0
                                  ELSE totalClaimablePoints(chainPos', now'))
     /\ balance' # balance => balance' = chainBal']_vars

\* C15: while no wallet is connected, balance, position and existence flag stay at
\* their reset values (0 / absent / false), whatever read or handler that was in
\* flight at the disconnect returns in between.
C15_DiscardAfterDisconnect ==
  publicKey = NoKey
    => (balance = LamZero /\ stakeAccount = NoAccount /\ ~pdaExists)

\* C16: while no wallet is connected no interval timer is armed.
C16_NoTimerWithoutWallet ==
  publicKey = NoKey => timers = {}

\* C17: every step of the sync loop that issues a read, on activation or on a
\* tick of the interval, issues the full snapshot read: position and balance.
C17_FullSnapshotRead ==
  [][(\E k \in DOMAIN pending : pending'[k] > pending[k])
       => \A k \in {"position", "balance"} : pending'[k] > pending[k]]_vars

\* C18: in every state the existence flag, the position and the claimable points
\* come from one read: the flag is true exactly when a position is published,
\* the points are 0 without a position and else the accrual of the published
\* position at the time it was read.
C18_WholesaleSnapshot ==
  /\ KnownToExist <=> stakeAccount # NoAccount
  /\ stakeAccount = NoAccount => calculatedPoints = 0
  /\ (hook = "useStakeProgram" /\ stakeAccount # NoAccount)
       => \E k \in 0..ticks :
            calculatedPoints = totalClaimablePoints(stakeAccount, k * TickSeconds)

\* the value the last accrual computation returned
AccrualResult(name) == lastEvent.op = name /\ lastEvent.outcome = "applied"
NothingToAccrue == chainPos.stakedAmount = LamZero \/ now <= chainPos.lastUpdatedTime

\* C19: every accrual computation of the client is a no-op when nothing is
\* staked or no time has passed: the read, the interval and calculatePoints
\* return exactly totalPoints, and the library function earns exactly 0.
C19_NoAccrualWithoutStakeOrTime ==
  (hook = "accrual" /\ NothingToAccrue) =>
    /\ (AccrualResult("fetchStakeAccount") \/ AccrualResult("interval")
          \/ AccrualResult("calculatePoints"))
         => calculatedPoints = chainPos.totalPoints
    /\ AccrualResult("lib.calculatePoints") => calculatedPoints = 0

\* C20: with a positive stake and a positive elapsed time, the claimable points
\* computed on a read and on the interval tick equal totalPoints plus the exact
\* integer quotient floor(stakedAmount * elapsed / 10^9).
C20_ExactIntegerAccrual ==
  (/\ hook = "accrual"
   /\ AccrualResult("fetchStakeAccount") \/ AccrualResult("interval")
   /\ chainPos.stakedAmount # LamZero
   /\ now > chainPos.lastUpdatedTime)
    => calculatedPoints = chainPos.totalPoints
                            + ExactEarned(chainPos.stakedAmount, now - chainPos.lastUpdatedTime)

\* the worked example: 10 SOL for 86400 s from 0 points gives 864000
C20_Example ==
  (/\ hook = "accrual"
   /\ AccrualResult("fetchStakeAccount") \/ AccrualResult("interval")
   /\ chainPos = Position(Lam(10, 0), 0, 0)
   /\ now = 86400)
    => calculatedPoints = 864000

\* C21: accrual is monotone in elapsed time: the claimable points a read
\* computes for a position are at most what a read of the same position
\* computes at any later clock reading.
C21_MonotoneAccrual ==
  (hook = "accrual" /\ AccrualResult("fetchStakeAccount")) =>
    \A later \in AccrualNows :
      later >= now => totalClaimablePoints(chainPos, later) >= calculatedPoints

\* a read whose product exceeds 2^53 and was rounded, with a later reading to compare
C21_Witness ==
  /\ hook = "accrual"
  /\ AccrualResult("fetchStakeAccount")
  /\ chainPos = Position(Lam(100, 100001), 0, 0)
  /\ now = 99999
  /\ calculatedPoints = 9999910
  /\ totalClaimablePoints(chainPos, 100099) > calculatedPoints

\* the last read decoded the account data
Decoded(name) == hook = "decode" /\ lastEvent.op = name
ValidRecord ==
  /\ chainPos # NoAccount
  /\ Len(chainPos.data) >= 65
  /\ chainPos.discriminator = StakeAccountDiscriminator

\* C22: decoding inverts the layout: a read of a record of at least 65 bytes
\* that encodes a position publishes exactly the owner, the three u64 fields
\* and the bump of that position, for every u64 value up to 2^64 - 1.
C22_DecodeInvertsLayout ==
  ((Decoded("fetchStakeAccount") \/ Decoded("lib.getStakeAccount")) /\ ValidRecord)
    => stakeAccount = chainPos.position

\* C23: a record of at least 65 bytes whose discriminator is not that of
\* StakeAccount is not decoded: the read publishes no position.
C23_DiscriminatorChecked ==
  (/\ Decoded("fetchStakeAccount") \/ Decoded("lib.getStakeAccount")
   /\ chainPos # NoAccount
   /\ Len(chainPos.data) >= 65
   /\ chainPos.discriminator # StakeAccountDiscriminator)
    => stakeAccount = NoAccount

\* C24: account data shorter than 65 bytes, empty data included, is read as
\* not initialized: no position, claimable points 0, no exception caught and
\* nothing partially decoded.
C24_ShortDataNotInitialized ==
  (/\ Decoded("fetchStakeAccount") \/ Decoded("lib.getStakeAccount")
   /\ chainPos # NoAccount
   /\ Len(chainPos.data) < 65)
    => /\ stakeAccount = NoAccount
       /\ calculatedPoints = U64Zero
       /\ lastEvent.outcome = "absent"

\* a read of 64 bytes of an encoded position (only the bump is missing), and one of 40
C24_Witness ==
  /\ Decoded("fetchStakeAccount")
  /\ chainPos # NoAccount
  /\ Len(chainPos.data) = 64
  /\ chainPos.position.stakedAmount = <<58368, 21515, 2, 0>>
  /\ stakeAccount = NoAccount

\* a step in which a position read of useStakeProgram returns: one issued by
\* the effect or the interval, or the one a handler awaits
PositionReadReturns ==
  \/ pending'.position < pending.position
  \/ \E i \in Slots : ops[i].pc = "fetchStakeAccount" /\ ops'[i].pc # "fetchStakeAccount"
NotesOf(o) == [i \in Slots |-> o[i].notes]

\* C25: a position read that returns while no account exists at the position
\* address publishes position = absent and claimable points = 0 and raises no
\* notification.
C25_MissingAccountIsNotAnError ==
  [][(PositionReadReturns /\ chainPos = NoAccount)
       => /\ stakeAccount' = NoAccount
          /\ calculatedPoints' = 0
          /\ lastEvent' = lastEvent
          /\ NotesOf(ops') = NotesOf(ops)]_vars

\* the mount read has returned and found no account
C25_Witness ==
  /\ hook = "useStakeProgram"
  /\ publicKey = User
  /\ chainPos = NoAccount
  /\ pending.position = 0
  /\ stakeAccount = NoAccount
  /\ calculatedPoints = 0

\* a step in which a balance read of useStakeProgram returns
BalanceReadReturns ==
  \/ pending'.balance < pending.balance
  \/ \E i \in Slots : ops[i].pc = "fetchWalletBalance" /\ ops'[i].pc # "fetchWalletBalance"

\* C26: the position read and the balance read are independent: a balance read
\* that returns, failed or not, leaves the published position and claimable
\* points as they are, and a position read that returns, failed or not, leaves
\* the published balance as it is.
C26_ReadsAreIndependent ==
  [][/\ BalanceReadReturns
          => (stakeAccount' = stakeAccount /\ calculatedPoints' = calculatedPoints)
     /\ PositionReadReturns => balance' = balance]_vars

\* the position read succeeded and the balance read failed: the position stays
C26_Witness ==
  /\ hook = "useStakeProgram"
  /\ pending = NoPending
  /\ stakeAccount # NoAccount
  /\ stakeAccount = chainPos
  /\ balance = LamZero
  /\ chainBal # LamZero

TryAgain == <<"Error", "Please try again. A new blockhash is required for each request.">>
EndedWithTryAgain(o) == o.pc = "done" /\ o.notes # <<>> /\ LastNote(o) = TryAgain
\* the handler in slot i awaits a submission or a confirmation, which fails as
\* already processed
FailsAsAlreadyProcessed(i) ==
  /\ ops[i].pc \in {"sendTransaction", "sendRawTransaction", "confirmTransaction"}
  /\ ops'[i].err = "AlreadyProcessed"
  /\ ops[i].err # "AlreadyProcessed"

\* C27: a handler of useStakeProgram whose submission or confirmation fails with
\* "already processed" ends in that step with the try-again guidance as its
\* one new toast, its loading flag is cleared in the same step, no handler ever
\* shows the raw error, and every transaction of a later invocation carries a
\* blockhash that invocation fetched itself.
C27_AlreadyProcessedIsRetryable ==
  /\ [][\A i \in Slots :
          FailsAsAlreadyProcessed(i)
            => /\ ops'[i].pc = "done"
               /\ ops'[i].notes = Append(ops[i].notes, TryAgain)
               /\ ~loading']_vars
  /\ [](\A i \in Slots : \A k \in 1..Len(ops[i].notes) :
          ops[i].notes[k] # <<"Error", "AlreadyProcessed">>)
  /\ [](\A j \in Slots : \A i \in Slots :
          (ops[j].pc = "done" /\ ops[j].err = "AlreadyProcessed" /\ ops[i].n > ops[j].n)
            => \A a \in TxsOf(i) :
                 /\ a.tx.recentBlockhash.n = ops[i].n
                 /\ a.tx.recentBlockhash.n # ops[j].blockhash.n)

\* the confirmation of a submitted stake failed as already processed, the stake
\* ended with the guidance, and a later invocation has submitted a transaction
C27_Witness ==
  \E j \in Slots : \E i \in Slots :
    /\ ops[j].op = "stake"
    /\ ops[j].err = "AlreadyProcessed"
    /\ Len(ops[j].txs) = 1
    /\ ops[j].confirmed = <<>>
    /\ EndedWithTryAgain(ops[j])
    /\ ops[i].n > ops[j].n
    /\ ops[i].txs # <<>>

\* the catch block of the handler has run on the thrown value
CatchApplied == lastEvent.outcome.applied

\* C28: in hooks/useStaking.ts each of the six business-error codes, returned by
\* any operation, ends in the toast that carries the message of that code.
C28_ErrorCodesMappedOneToOne ==
  (/\ hook = "useStakingTs"
   /\ CatchApplied
   /\ \E c \in ErrorCodes : MessageIncludes(lastEvent.outcome.thrown, c))
    => lastEvent.outcome.toast
         = <<"Error", idlErrorMsg(lastEvent.outcome.thrown.message.code)>>

\* C29: whatever value a remote call rejects with, the catch block of the
\* handler ends in an error toast and the handler returns normally: no exception
\* leaves createPdaAccount, stake, unstake or claimPoints.
C29_NoExceptionEscapes ==
  CatchApplied
    => (~lastEvent.outcome.escaped
        /\ lastEvent.outcome.toast # <<>>
        /\ lastEvent.outcome.toast[1] = "Error")

\* a step of the sync loop: a background read is issued or returns, or the
\* points interval republishes, while no handler moves
RefreshStep ==
  \/ pending' # pending
  \/ /\ ops' = ops /\ invocations' = invocations
     /\ <<balance, stakeAccount, calculatedPoints>>' # <<balance, stakeAccount, calculatedPoints>>

\* C30: a refresh is read-only for the orchestrator: no step of the sync loop
\* changes the loading flag, moves a handler, submits a transaction or changes
\* the ledger.
C30_RefreshIsReadOnly ==
  [][RefreshStep => (loading' = loading /\ ops' = ops /\ chainPos' = chainPos
                      /\ chainBal' = chainBal /\ invocations' = invocations)]_vars

\* a stake is awaiting its confirmation and a background read has already
\* published the position the stake produced
C30_Witness ==
  \E i \in Slots :
    /\ hook = "useStakeProgram"
    /\ ops[i].op = "stake"
    /\ ops[i].pc = "confirmTransaction"
    /\ loading
    /\ stakeAccount = chainPos
    /\ stakeAccount # NoAccount
    /\ stakeAccount.stakedAmount = SolToLamports(2)

\* C31: the transaction stake(amount) builds or submits holds the stake
\* instruction alone, with floor(amount * 10^9) lamports as its argument, paid
\* and signed by the user: no other instruction moves funds of the user.
C31_StakeInstructionAlone ==
  \A i \in Slots : \A a \in TxsOf(i) :
    (ops[i].op = "stake" /\ a.tx.name = "stake")
      => /\ a.tx.ixs = <<Ix("stake", SolToLamports(ops[i].amount), NoKey)>>
         /\ a.tx.feePayer = ops[i].key
         /\ a.tx.signer = ops[i].key

ErrorNotes(o) == {k \in 1..Len(o.notes) : o.notes[k][1] = "Error"}
SuccessNotes(o) == {k \in 1..Len(o.notes) : o.notes[k][1] # "Error"}

\* C32: every handler of useStakeProgram goes blockhash, submit, confirm in that
\* order: a submitted transaction carries a blockhash, confirmations follow the
\* submissions one by one, a success toast is there only when every transaction
\* of the operation was submitted and confirmed, and a handler that has ended
\* emitted exactly one toast, so a failed one exactly one error and no success.
C32_SubmitConfirmNotify ==
  \A i \in Slots :
    LET o == ops[i]
    IN  /\ \A k \in 1..Len(o.txs) : o.txs[k].recentBlockhash # NoHash
        /\ Len(o.confirmed) <= Len(o.txs)
        /\ \A k \in 1..Len(o.confirmed) : o.confirmed[k] = o.txs[k].name
        /\ SuccessNotes(o) # {}
             => /\ o.txs # <<>>
                /\ Len(o.confirmed) = Len(o.txs)
                /\ o.tx = NoTx
                /\ ErrorNotes(o) = {}
                /\ o.op = "claimPoints" => o.confirmed = <<"claimPoints", "payout">>
        /\ o.pc = "done" => Len(o.notes) = 1

\* C33: without the custodial key claimPoints is turned away before any remote
\* call: it starts no handler and leaves loading alone, and in such a session no
\* claim transaction exists and the points on the ledger are never consumed.
C33_NoClaimWithoutCustodialKey ==
  /\ [][(Invoked /\ lastEvent'.op = "claimPoints" /\ publicKey # NoKey /\ ~keypair)
          => /\ lastEvent'.outcome = "Points account private key not configured."
             /\ UNCHANGED <<loading, ops, chainPos, chainBal>>]_vars
  /\ [](~keypair => \A i \in Slots : ops[i].op # "claimPoints" /\ TxsOf(i) = {})
  /\ [][~keypair => chainPos' = chainPos]_vars

\* a claim with 200000 claimable points was turned away for want of the key
C33_Witness ==
  /\ ~keypair
  /\ lastEvent.op = "claimPoints"
  /\ lastEvent.amount >= 200000
  /\ lastEvent.outcome = "Points account private key not configured."
  /\ chainPos.totalPoints = 200000

\* whole units received by the wallet from the custodial account so far
PaidOut == LamSub(chainBal, Lam(1, feeBuffer)).sol
\* every point the position has held since the session began: the largest
\* initial total plus what its stake earned up to now
PointsEverHeld ==
  (CHOOSE p \in ClaimPoints : \A q \in ClaimPoints : q <= p)
    + ExactEarned(chainPos.stakedAmount, now)

\* C34: whatever the overlap of the claimPoints invocations of a session, the
\* units paid out of the custodial account never exceed floor(P / 100000) for
\* the points P consumed on the ledger, which are at most the points the
\* position ever held.
C34_NoOverPayout == PaidOut * POINTS_PER_SOL <= PointsEverHeld

\* C35: the position and the claimable points published by useStakeProgram belong
\* to the connected wallet: once the wallet has disconnected, the position and
\* points read for it are no longer published.
C35_PointsOfConnectedWallet ==
  (hook = "useStakeProgram" /\ publicKey = NoKey)
    => (stakeAccount = NoAccount /\ calculatedPoints = 0)

\* C36: in useStaking of part_002 loading is true for as long as a stake that
\* passed its validation has not returned, the time after its nested
\* createPdaAccount included.
C36_LoadingThroughoutStake ==
  \A i \in Slots :
    (hook = "useStaking" /\ ops[i].op = "stake" /\ Running(i)) => loading

\* C37: overlapping reads take effect in the order they were started: the read
\* that publishes is never older than the one that published before it, and once
\* every read has completed the published snapshot is that of the read started
\* last.
C37_ReadsPublishInStartOrder ==
  /\ [][lastEvent'.n >= lastEvent.n]_vars
  /\ [](pending = {} => lastEvent.n = invocations)

\* C38: a stake hands the initialize transaction to the node only while the
\* position does not exist on the ledger.
C38_InitializeOnlyIfAbsent ==
  \A i \in Slots :
    (ops[i].op = "stake" /\ ops[i].pc = "sendRawTransaction"
     /\ ops[i].tx.name = "createPdaAccount")
      => chainPos = NoAccount

\* C39: provided every awaited call returns or fails, every handler that set
\* loading to true comes to its end, on its success path, through its catch or by
\* a return inside its try block, and the step that ends it sets loading to false.
C39_EveryOperationTerminates ==
  /\ \A i \in Slots : Running(i) ~> (ops[i].pc = "done")
  /\ [][\A i \in Slots : (Running(i) /\ ops'[i].pc = "done") => ~loading']_vars

\* a claimPoints of useStakeProgram left by the return inside its try block (60000
\* points: claim confirmed, payout of 0), and a stake of useStaking that failed
\* in its nested createPdaAccount
C39_Witness ==
  \E i \in Slots :
    /\ ops[i].pc = "done"
    /\ ~loading
    /\ \/ /\ hook = "useStakeProgram" /\ ops[i].op = "claimPoints"
          /\ ops[i].confirmed = <<"claimPoints">>
          /\ ops[i].notes = <<<<"Error", "You need at least 100000 points to claim 1 SOL.">>>>
       \/ /\ hook = "useStaking" /\ ops[i].op = "stake" /\ ops[i].leg = "init"

====
